---------------------------- MODULE Spec2Model ----------------------------
(***************************************************************************)
(* Model of devdox-ai-git: the remote-reference parser                     *)
(* (utils/repository_url_parser.py), the provider dispatcher               *)
(* (repo_fetcher.py, RepoFetcher.get_components), the response             *)
(* transformers (schema/repo.py), the fetchers (repo_fetcher.py) and the   *)
(* managers over the provider clients (git_managers.py).                   *)
(*                                                                         *)
(* A Python str is modelled as a sequence of one-character strings, so     *)
(* that strip, split, find, lower, startswith, endswith and the regular    *)
(* expressions are computed character by character, as the code does.      *)
(***************************************************************************)
EXTENDS Integers, Sequences, FiniteSets, TLC

VARIABLES
    pc,          \* position of the caller: which call comes next
    raw_remote,  \* the raw string the caller passes to parse_git_remote
    ref,         \* outcome of parse_git_remote(raw_remote)
    ref2,        \* outcome of parse_git_remote(ref.full_name)
    wanted,      \* (namespace, repo) a remote string is composed from
    provider_arg,\* the argument of RepoFetcher.get_components
    components,  \* outcome of RepoFetcher.get_components(provider_arg)
    entry,       \* the transformer and the method of it a caller uses
    payload,     \* the data the caller passes to that method
    normalized,  \* outcome of the method on payload
    request,     \* the fetcher or manager operation a caller invokes
    account,     \* what the provider holds and serves
    failure,     \* which call on the provider client fails, and how
    trace,       \* the calls the operation made, in order
    outcome,     \* what the operation returned or raised
    heap,        \* the objects constructed so far, in order of construction
    threads      \* the concurrent callers of get_components: position, locals

\* the variables of the response transformers
normVars == <<entry, payload, normalized>>

\* the variables of the fetchers and managers
fetchVars == <<request, account, failure, trace, outcome>>

\* the variables of the concurrent callers of the dispatcher
callVars == <<heap, threads>>

vars == <<pc, raw_remote, ref, ref2, wanted, provider_arg, components,
          normVars, fetchVars, callVars>>

-----------------------------------------------------------------------------
(* Bounds of the model. *)

\* Longest path, in '/'-separated pieces, appended to a lead when an input
\* of parse_git_remote is built.
MaxSegs == 3

\* Longest namespace of the round-trip inputs.
MaxNs == 2

\* Largest of the consecutive sizes 0..MaxSize a payload reports.
MaxSize == 2

\* Most fields a payload lacks (null, or not there) at once.
MaxHoles == 2

\* Most repositories an account holds.
MaxRepos == 3

\* Largest of the consecutive offsets and of the consecutive limits a
\* caller asks for.
MaxOffset == 2

\* Most files commit_files is given.
MaxFiles == 2

\* Concurrent callers of get_components.
MaxCallers == 2

\* Operations a caller runs on one fetcher, one after the other.
MaxOperations == 2

-----------------------------------------------------------------------------
(* Python str primitives. *)

Range(s) == { s[i] : i \in 1..Len(s) }

LowerAlpha ==
    << "a","b","c","d","e","f","g","h","i","j","k","l","m",
       "n","o","p","q","r","s","t","u","v","w","x","y","z" >>

UpperAlpha ==
    << "A","B","C","D","E","F","G","H","I","J","K","L","M",
       "N","O","P","Q","R","S","T","U","V","W","X","Y","Z" >>

Digits == { "0","1","2","3","4","5","6","7","8","9" }

\* str.isalpha() and str.isascii() of one ASCII character
isalpha(c) == c \in Range(LowerAlpha) \cup Range(UpperAlpha)

\* str.lower() of one character
lower_char(c) ==
    IF \E i \in 1..Len(UpperAlpha) : UpperAlpha[i] = c
    THEN LowerAlpha[CHOOSE i \in 1..Len(UpperAlpha) : UpperAlpha[i] = c]
    ELSE c

\* str.upper() of one character
upper_char(c) ==
    IF \E i \in 1..Len(LowerAlpha) : LowerAlpha[i] = c
    THEN UpperAlpha[CHOOSE i \in 1..Len(LowerAlpha) : LowerAlpha[i] = c]
    ELSE c

\* str.lower()
lower(s) == [ i \in 1..Len(s) |-> lower_char(s[i]) ]

\* s[i:] for a 1-based i
From(s, i) == SubSeq(s, i, Len(s))

\* str.find(c) for a one-character c, 1-based; 0 when c does not occur
find(s, c) ==
    IF \E i \in 1..Len(s) : s[i] = c
    THEN CHOOSE i \in 1..Len(s) : s[i] = c /\ \A j \in 1..(i-1) : s[j] # c
    ELSE 0

\* str.rfind(c), 1-based; 0 when c does not occur
rfind(s, c) ==
    IF \E i \in 1..Len(s) : s[i] = c
    THEN CHOOSE i \in 1..Len(s) : s[i] = c /\ \A j \in (i+1)..Len(s) : s[j] # c
    ELSE 0

\* str.startswith(p)
startswith(s, p) == Len(p) <= Len(s) /\ SubSeq(s, 1, Len(p)) = p

\* str.endswith(p)
endswith(s, p) == Len(p) <= Len(s) /\ SubSeq(s, Len(s) - Len(p) + 1, Len(s)) = p

\* "w in s" for strings
contains(s, w) ==
    \E i \in 1..(Len(s) - Len(w) + 1) : SubSeq(s, i, i + Len(w) - 1) = w

\* str.strip(chars): drop the leading and trailing characters that are in chars
strip_chars(s, chars) ==
    IF \A i \in 1..Len(s) : s[i] \in chars
    THEN << >>
    ELSE LET a == CHOOSE i \in 1..Len(s) :
                     s[i] \notin chars /\ \A j \in 1..(i-1) : s[j] \in chars
             b == CHOOSE i \in 1..Len(s) :
                     s[i] \notin chars /\ \A j \in (i+1)..Len(s) : s[j] \in chars
         IN  SubSeq(s, a, b)

\* str.lstrip(chars)
lstrip_chars(s, chars) ==
    IF \A i \in 1..Len(s) : s[i] \in chars
    THEN << >>
    ELSE From(s, CHOOSE i \in 1..Len(s) :
                     s[i] \notin chars /\ \A j \in 1..(i-1) : s[j] \in chars)

\* the whitespace str.strip() removes (of the characters the model uses)
Whitespace == { " " }

\* str.strip()
strip(s) == strip_chars(s, Whitespace)

\* str.split(c): the pieces between the occurrences of c, empty ones included
RECURSIVE split(_, _)
split(s, c) ==
    LET i == find(s, c)
    IN  IF i = 0 THEN << s >>
        ELSE << SubSeq(s, 1, i - 1) >> \o split(From(s, i + 1), c)

\* c.join(parts)
RECURSIVE join(_, _)
join(parts, c) ==
    IF parts = << >> THEN << >>
    ELSE IF Len(parts) = 1 THEN parts[1]
    ELSE parts[1] \o << c >> \o join(Tail(parts), c)

\* lst[:-1]
ButLast(lst) == SubSeq(lst, 1, Len(lst) - 1)

-----------------------------------------------------------------------------
(* String constants of the program. *)

GITLAB  == << "g","i","t","l","a","b" >>
GITHUB  == << "g","i","t","h","u","b" >>
UNKNOWN == << "u","n","k","n","o","w","n" >>
DOT_GIT == << ".","g","i","t" >>

UNRECOGNIZED_GIT_FORMAT == "UNRECOGNIZED_GIT_FORMAT"
MISSING_NAMESPACE__REPO == "MISSING_NAMESPACE__REPO"


-----------------------------------------------------------------------------
(* urllib.parse.urlparse, as parse_git_remote uses it: the scheme, the     *)
(* network location, the path and the hostname property.  The characters   *)
(* ';', '[' and ']' and the control characters, which urlparse treats      *)
(* specially, are outside the alphabet of the inputs.                      *)

\* the characters a URL scheme is made of
scheme_chars == Range(LowerAlpha) \cup Range(UpperAlpha) \cup Digits \cup { "+", "-", "." }

\* the first position >= start of a character of delims, Len(s)+1 when none
first_delim(s, start, delims) ==
    IF \E i \in start..Len(s) : s[i] \in delims
    THEN CHOOSE i \in start..Len(s) :
             s[i] \in delims /\ \A j \in start..(i-1) : s[j] \notin delims
    ELSE Len(s) + 1

\* SplitResult.hostname: the text after the last '@' up to the first ':',
\* lower-cased; the empty sequence stands for None
hostname_of(netloc) ==
    LET hostinfo == From(netloc, rfind(netloc, "@") + 1)
        colon    == find(hostinfo, ":")
        name     == IF colon = 0 THEN hostinfo ELSE SubSeq(hostinfo, 1, colon - 1)
    IN  lower(name)

\* urllib.parse.urlparse; invalid: it raises ValueError("Invalid IPv6 URL"),
\* the network location having one of '[' and ']' without the other
urlparse(url0) ==
    LET url    == lstrip_chars(url0, Whitespace)
        i      == find(url, ":")
        has    == /\ i > 1
                  /\ isalpha(url[1])
                  /\ \A k \in 1..(i-1) : url[k] \in scheme_chars
        scheme == IF has THEN lower(SubSeq(url, 1, i - 1)) ELSE << >>
        rest   == IF has THEN From(url, i + 1) ELSE url
        slashes == startswith(rest, << "/", "/" >>)
        delim  == first_delim(rest, 3, { "/", "?", "#" })
        netloc == IF slashes THEN SubSeq(rest, 3, delim - 1) ELSE << >>
        after  == IF slashes THEN From(rest, delim) ELSE rest
        path   == SubSeq(after, 1, first_delim(after, 1, { "?", "#" }) - 1)
    IN  [ scheme |-> scheme, netloc |-> netloc, path |-> path,
          hostname |-> hostname_of(netloc),
          invalid |-> slashes /\ ("[" \in Range(netloc)) # ("]" \in Range(netloc)) ]

-----------------------------------------------------------------------------
(* utils/repository_url_parser.py *)

\* A returned RepoRef, or the error parse_git_remote raised.  status is "ok"
\* for a RepoRef, else the message of the DevDoxGitException, or
\* "IndexError" for parts[-1] of an empty list.
RepoRef(original, host, prov, parts) ==
    [ status    |-> "ok",
      original  |-> original,
      host      |-> host,
      provider  |-> prov,
      namespace |-> ButLast(parts),
      repo      |-> parts[Len(parts)],
      full_name |-> join(parts, "/") ]

Raised(message) ==
    [ status    |-> message,
      original  |-> << >>,
      host      |-> << >>,
      provider  |-> << >>,
      namespace |-> << >>,
      repo      |-> << >>,
      full_name |-> << >> ]

\* the value of ref and ref2 before the call is made
NoRef == Raised("none")

\* _SCP_RE = ^(?:(?P<user>[^@]+)@)?(?P<host>[^:]+):(?P<path>.+)$
\* The optional user group is tried first: a non-empty user up to the first
\* '@', then a non-empty host without ':' up to the next ':', then a
\* non-empty path.  If that fails the group is skipped: the host is the text
\* before the first ':' of the whole string.
scp_tail(s) ==
    LET c == find(s, ":")
    IN  [ matched |-> c > 1 /\ c < Len(s),
          host    |-> IF c > 1 THEN SubSeq(s, 1, c - 1) ELSE << >>,
          path    |-> IF c > 0 THEN From(s, c + 1) ELSE << >> ]

_SCP_RE_match(s) ==
    LET at       == find(s, "@")
        withUser == IF at > 1 THEN scp_tail(From(s, at + 1)) ELSE scp_tail(<< >>)
    IN  IF withUser.matched THEN withUser ELSE scp_tail(s)

\* _provider_from_host with the two tests in the other order
_provider_from_host_GithubFirst(host) ==
    LET h == lower(host)
    IN  IF contains(h, GITHUB) THEN GITHUB
        ELSE IF contains(h, GITLAB) THEN GITLAB
        ELSE UNKNOWN

_provider_from_host(host) ==
    LET h == lower(host)
    IN  IF contains(h, GITLAB) THEN GITLAB
        ELSE IF contains(h, GITHUB) THEN GITHUB
        ELSE UNKNOWN

\* _split_path without the 'if p' filter that drops the empty segments
_split_path_KeepEmpty(path) ==
    LET parts == split(strip_chars(path, { "/" }), "/")
        n     == Len(parts)
    IN  IF n > 0 /\ endswith(parts[n], DOT_GIT)
        THEN [ parts EXCEPT ![n] = SubSeq(parts[n], 1, Len(parts[n]) - 4) ]
        ELSE parts

_split_path(path) ==
    LET parts == SelectSeq(split(strip_chars(path, { "/" }), "/"),
                           LAMBDA p : p # << >>)
        n     == Len(parts)
    IN  IF n > 0 /\ endswith(parts[n], DOT_GIT)
        THEN [ parts EXCEPT ![n] = SubSeq(parts[n], 1, Len(parts[n]) - 4) ]
        ELSE parts

_looks_like_bare_fullname(s) ==
    IF s = << >> \/ "\\" \in Range(s)
    THEN FALSE
    ELSE IF \/ startswith(s, << "/" >>)
            \/ startswith(s, << ".", "/" >>)
            \/ startswith(s, << ".", ".", "/" >>)
    THEN FALSE
    ELSE IF Len(s) >= 3 /\ isalpha(s[1]) /\ s[2] = ":" /\ s[3] \in { "\\", "/" }
    THEN FALSE
    ELSE "/" \in Range(s) /\ ~ (":" \in Range(s) \/ contains(s, << ":", "/", "/" >>))

\* the early return of the two shorthand branches: no length check
shorthand(remote, path) ==
    LET parts == _split_path(path)
    IN  IF parts = << >> THEN Raised("IndexError")
        ELSE RepoRef(remote, << >>, UNKNOWN, parts)

\* the common tail of the URL and scp-like branches
checked(remote, host, parts) ==
    IF Len(parts) < 2 THEN Raised(MISSING_NAMESPACE__REPO)
    ELSE RepoRef(remote, host, _provider_from_host(host), parts)

parse_git_remote(raw) ==
    LET remote == strip(raw)
        parsed == urlparse(remote)
        m      == _SCP_RE_match(remote)
    IN  IF parsed.invalid THEN Raised("ValueError")
        ELSE IF parsed.scheme # << >> /\ parsed.netloc # << >>
        THEN checked(remote,
                     lower(IF parsed.hostname # << >> THEN parsed.hostname
                           ELSE parsed.netloc),
                     _split_path(parsed.path))
        ELSE IF m.matched
        THEN checked(remote, lower(m.host), _split_path(m.path))
        ELSE IF startswith(remote, << "/" >>) /\ _looks_like_bare_fullname(Tail(remote))
        THEN shorthand(remote, Tail(remote))
        ELSE IF _looks_like_bare_fullname(remote)
        THEN shorthand(remote, remote)
        ELSE Raised(UNRECOGNIZED_GIT_FORMAT)

-----------------------------------------------------------------------------
(* repo_fetcher.py: RepoFetcher.get_components *)

\* A Python value passed as provider: a GitHosting member, a str, or a value
\* of another type (None).
Enum(value)  == [ kind |-> "GitHosting", value |-> value ]
Str(value)   == [ kind |-> "str", value |-> value ]
None         == [ kind |-> "NoneType", value |-> << >> ]

\* class GitHosting(str, Enum): isinstance(provider, GitHosting)
isinstance_GitHosting(v) == v.kind = "GitHosting"

\* a == b for these values: GitHosting mixes in str, so a member equals the
\* str of its value; comparison is by characters, case-sensitive
py_eq(a, b) ==
    IF a.kind \in { "GitHosting", "str" } /\ b.kind \in { "GitHosting", "str" }
    THEN a.value = b.value
    ELSE a = b

\* the pair get_components returns, by the classes of its two members
Pair(fetcher, transformer) ==
    [ raised |-> FALSE, fetcher |-> fetcher, transformer |-> transformer ]

NoComponents == [ raised |-> FALSE, fetcher |-> "-", transformer |-> "-" ]

\* get_components comparing the lower-cased provider value
get_components_CaseInsensitive(provider) ==
    LET provider_value == IF provider.kind = "NoneType" THEN provider
                          ELSE Str(lower(provider.value))
    IN  IF py_eq(provider_value, Str(GITHUB))
        THEN Pair("GitHubRepoFetcher", "GitHubRepoResponseTransformer")
        ELSE IF py_eq(provider_value, Str(GITLAB))
        THEN Pair("GitLabRepoFetcher", "GitLabRepoResponseTransformer")
        ELSE Pair("None", "None")

\* get_components pairing the GitLab fetcher of an enum member with the
\* GitHub transformer
get_components_SwappedTransformer(provider) ==
    LET provider_value == IF isinstance_GitHosting(provider)
                          THEN Str(provider.value) ELSE provider
    IN  IF py_eq(provider_value, Str(GITHUB)) \/ py_eq(provider, Enum(GITHUB))
        THEN Pair("GitHubRepoFetcher", "GitHubRepoResponseTransformer")
        ELSE IF py_eq(provider, Enum(GITLAB))
        THEN Pair("GitLabRepoFetcher", "GitHubRepoResponseTransformer")
        ELSE IF py_eq(provider_value, Str(GITLAB))
        THEN Pair("GitLabRepoFetcher", "GitLabRepoResponseTransformer")
        ELSE Pair("None", "None")

get_components(provider) ==
    LET provider_value == IF isinstance_GitHosting(provider)
                          THEN Str(provider.value) ELSE provider
    IN  IF py_eq(provider_value, Str(GITHUB)) \/ py_eq(provider, Enum(GITHUB))
        THEN Pair("GitHubRepoFetcher", "GitHubRepoResponseTransformer")
        ELSE IF py_eq(provider_value, Str(GITLAB)) \/ py_eq(provider, Enum(GITLAB))
        THEN Pair("GitLabRepoFetcher", "GitLabRepoResponseTransformer")
        ELSE Pair("None", "None")

-----------------------------------------------------------------------------
(* repo_fetcher.py: the objects a call of get_components constructs.  An   *)
(* object is its position in heap; 0 is no object.                         *)

\* an object of class cls as its constructor leaves it before __init__ runs,
\* constructed in the call made by caller `by`
instance(cls, by) == [ cls |-> cls, by |-> by, manager |-> 0 ]

\* a construction that hands out the object of the class there already is
new_object_Interned(h, cls) ==
    IF \E i \in DOMAIN h : h[i].cls = cls
    THEN CHOOSE i \in DOMAIN h : h[i].cls = cls
    ELSE Len(h) + 1

\* cls(): the identity of a newly constructed object, that of no other
new_object(h, cls) == Len(h) + 1

\* the heap once the object `id` of class cls is constructed by caller `by`
constructed(h, id, cls, by) ==
    IF id \in DOMAIN h THEN h ELSE Append(h, instance(cls, by))

-----------------------------------------------------------------------------
(* Inputs. *)

\* How a remote string starts: nothing, a URL scheme with a host (with
\* user-info and port, with an empty host, with an empty host name), an
\* scp-like host, a drive letter, a relative path, a network location with
\* an opening bracket.
Leads ==
    { << >>,
      << "h", "t", "t", "p", "s", ":", "/", "/", "G", "i", "t", "H", "u", "b", ".", "c", "o", "m", "/" >>,
      << "S", "S", "H", ":", "/", "/", "g", "i", "t", "@", "G", "i", "t", "L", "a", "b", "-", "G", "i", "t", "H", "u", "b", ":", "2", "2", "/" >>,
      << "h", "t", "t", "p", "s", ":", "/", "/" >>,
      << "h", "t", "t", "p", "s", ":", "/", "/", "g", "i", "t", "@", ":", "2", "2", "/" >>,
      << "g", "i", "t", "@", "G", "i", "t", "H", "u", "b", ".", "c", "o", "m", ":" >>,
      << "G", "i", "t", "L", "a", "b", ".", "i", "o", ":" >>,
      << "C", ":" >>,
      << ".", "/" >>,
      << "/", "/", "[", "h" >> }

\* The pieces of a path, joined with '/': an empty piece makes a leading, a
\* doubled or a trailing slash, a blank one leading or trailing whitespace.
Segs ==
    { << >>,
      << "a" >>,
      << "B", ".", "g", "i", "t" >>,
      << ".", "g", "i", "t" >>,
      << ".", "." >>,
      << "x", ":", "y" >>,
      << "\\", "d" >>,
      << " " >> }

SegSeqs == UNION { [ 1..n -> Segs ] : n \in 0..MaxSegs }

Remotes == { lead \o join(segs, "/") : lead \in Leads, segs \in SegSeqs }

\* every letter-casing of a word
CasingsOf(w) ==
    { [ i \in 1..Len(w) |-> IF i \in U THEN upper_char(w[i]) ELSE w[i] ] :
        U \in SUBSET (1..Len(w)) }

\* The values passed as provider: the members of GitHosting, every casing
\* of their values, other strings, and None.
Providers ==
    { Enum(GITHUB), Enum(GITLAB), None }
    \cup { Str(w) : w \in CasingsOf(GITHUB) \cup CasingsOf(GITLAB) }
    \cup { Str(<< >>), Str(<< "g","i","t" >>), Str(GITHUB \o << " " >>),
           Str(GITLAB \o << "x" >>),
           Str(<< "b","i","t","b","u","c","k","e","t" >>) }

\* Namespace segments and repository names of the round-trip inputs: names
\* a hosting provider accepts (letters, digits, '.', '-', '_'), among them
\* names with dots and names that themselves end in ".git".
Names ==
    { << "a" >>,
      << "B" >>,
      << "R", ".", "w" >>,
      << "x", ".", "g", "i", "t" >>,
      << ".", "g", "i", "t" >> }

Namespaces == UNION { [ 1..n -> Names ] : n \in 1..MaxNs }

NoWanted == [ namespace |-> << >>, repo |-> << >> ]

\* The ways the string of a namespace and a repository name is written:
\* "n1/../nk/r.git" as it is, with a leading slash, with every slash
\* doubled, with a trailing slash, behind a URL host (also with doubled and
\* trailing slashes) and behind an scp-like host.
Forms == { "plain", "leading", "doubled", "trailing", "url", "url_doubled", "scp" }

doubled(parts) == [ i \in 1..(2 * Len(parts) - 1) |->
                      IF i % 2 = 1 THEN parts[(i + 1) \div 2] ELSE << >> ]

compose(form, namespace, repo) ==
    LET parts == namespace \o << repo \o DOT_GIT >>
        path  == join(parts, "/")
        wide  == join(doubled(parts), "/")
        url   == << "h","t","t","p","s",":","/","/" >> \o GITHUB \o << ".","c","o","m" >>
        scp   == << "g","i","t","@" >> \o GITLAB \o << ".","c","o","m",":" >>
    IN  CASE form = "plain"       -> path
          [] form = "leading"     -> << "/" >> \o path
          [] form = "doubled"     -> wide
          [] form = "trailing"    -> path \o << "/" >>
          [] form = "url"         -> url \o << "/" >> \o path
          [] form = "url_doubled" -> url \o << "/", "/" >> \o wide \o << "/", "/" >>
          [] form = "scp"         -> scp \o path

-----------------------------------------------------------------------------
(* schema/repo.py: the values of a payload *)

\* Python values beside Str and None: an int, a bool, a datetime, a dict
\* (the function from its keys to its values; << >> is the empty dict), a
\* list, and an object with attributes, by its class: SimpleNamespace,
\* Project (gitlab), Repository or AuthenticatedUser (github), or a bare
\* object().
PyInt(n)           == [ kind |-> "int", int |-> n ]
Bool(b)            == [ kind |-> "bool", bool |-> b ]
Datetime(year)     == [ kind |-> "datetime", year |-> year ]
Dict(items)        == [ kind |-> "dict", items |-> items ]
List(elems)        == [ kind |-> "list", elems |-> elems ]
Tuple(elems)       == [ kind |-> "tuple", elems |-> elems ]
Object(cls, attrs) == [ kind |-> cls, attrs |-> attrs ]

\* an exception that left the call: its class and the names its message
\* gives (the type received, the attribute missing, the fields refused)
Throw(exc, detail) == [ kind |-> "raised", exc |-> exc, detail |-> detail ]

\* bool(v) were None the only false value
truthy_OnlyNoneFalse(v) == v.kind # "NoneType"

\* bool(v), as "if not v" takes it
truthy(v) ==
    CASE v.kind = "NoneType"          -> FALSE
      [] v.kind = "bool"              -> v.bool
      [] v.kind = "int"               -> v.int # 0
      [] v.kind = "str"               -> v.value # << >>
      [] v.kind = "list"              -> v.elems # << >>
      [] v.kind = "dict"              -> DOMAIN v.items # {}
      [] OTHER                        -> TRUE

\* a or b
py_or(a, b) == IF truthy(a) THEN a ELSE b

\* items.get(key, default) of a dict, getattr(o, key, default) of an object
dict_get(items, key, default) ==
    IF key \in DOMAIN items THEN items[key] ELSE default

DigitChars == << "0", "1", "2", "3", "4", "5", "6", "7", "8", "9" >>

\* the decimal digits of a non-negative int
RECURSIVE decimal(_)
decimal(n) ==
    IF n < 10 THEN << DigitChars[n + 1] >>
    ELSE decimal(n \div 10) \o << DigitChars[(n % 10) + 1] >>

\* str(v) of a str, an int or None
py_str(v) ==
    CASE v.kind = "str"      -> v
      [] v.kind = "int"      -> Str(decimal(v.int))
      [] v.kind = "NoneType" -> Str(<< "N", "o", "n", "e" >>)

\* the first of the names, in the order the code reads them, that the
\* object does not have; 0 when it has them all
first_missing(names, attrs) ==
    LET missing == { i \in 1..Len(names) : names[i] \notin DOMAIN attrs }
    IN  IF missing = {} THEN 0
        ELSE CHOOSE i \in missing : \A j \in missing : i <= j

-----------------------------------------------------------------------------
(* schema/repo.py: the canonical records and the two transformers *)

MAIN     == << "m", "a", "i", "n" >>
PRIVATE  == << "p", "r", "i", "v", "a", "t", "e" >>
INTERNAL == << "i", "n", "t", "e", "r", "n", "a", "l" >>

\* a field of a pydantic model accepts a value of its type, and None when
\* it is declared "| None"
accepts(v, type, optional) == v.kind = type \/ (optional /\ v.kind = "NoneType")

\* NormalizedGitRepo(**fields): the record, or the ValidationError of the
\* first field whose value its type does not accept
NormalizedGitRepo(fields) ==
    LET bad == { n \in DOMAIN fields :
                   ~ CASE n \in { "id", "repo_name", "html_url", "relative_path",
                                  "default_branch" }
                               -> accepts(fields[n], "str", FALSE)
                       [] n \in { "forks_count", "stargazers_count" }
                               -> accepts(fields[n], "int", FALSE)
                       [] n \in { "description", "visibility" }
                               -> accepts(fields[n], "str", TRUE)
                       [] n = "size"            -> accepts(fields[n], "int", TRUE)
                       [] n = "private"         -> accepts(fields[n], "bool", TRUE)
                       [] n = "repo_created_at" -> accepts(fields[n], "datetime", TRUE) }
    IN  IF bad = {} THEN Object("NormalizedGitRepo", fields)
        ELSE Throw("ValidationError", bad)

\* GitUserResponse(**fields): every field is optional
GitUserResponse(fields) ==
    LET bad == { n \in DOMAIN fields :
                   ~ accepts(fields[n], IF n = "id" THEN "int" ELSE "str", TRUE) }
    IN  IF bad = {} THEN Object("GitUserResponse", fields)
        ELSE Throw("ValidationError", bad)

\* GitLabRepoResponseTransformer.derive_storage_size
derive_storage_size(statistics) ==
    IF ~ truthy(statistics) THEN None
    ELSE dict_get(statistics.items, "repository_size", PyInt(0))

\* derived_private_field comparing the visibility as it is written
derived_private_field_CaseSensitive(visibility) ==
    IF ~ truthy(visibility) THEN None
    ELSE IF visibility.value \in { PRIVATE, INTERNAL } THEN Bool(TRUE)
    ELSE Bool(FALSE)

\* GitLabRepoResponseTransformer.derived_private_field
derived_private_field(visibility) ==
    IF ~ truthy(visibility) THEN None
    ELSE IF lower(visibility.value) \in { PRIVATE, INTERNAL } THEN Bool(TRUE)
    ELSE Bool(FALSE)

\* GitLabRepoResponseTransformer.transform_project_to_dict: visibility and
\* statistics are read with getattr(.., None), the other attributes
\* directly, so that a missing one raises AttributeError
transform_project_to_dict(project) ==
    LET a     == project.attrs
        names == << "id", "name", "description", "default_branch",
                    "forks_count", "created_at", "star_count",
                    "http_url_to_repo", "path_with_namespace" >>
        m     == first_missing(names, a)
    IN  IF m # 0 THEN Throw("AttributeError", { names[m] })
        ELSE Dict([ id                  |-> py_str(a.id),
                    name                |-> a.name,
                    description         |-> a.description,
                    default_branch      |-> a.default_branch,
                    forks_count         |-> a.forks_count,
                    visibility          |-> dict_get(a, "visibility", None),
                    created_at          |-> a.created_at,
                    star_count          |-> a.star_count,
                    http_url_to_repo    |-> a.http_url_to_repo,
                    path_with_namespace |-> a.path_with_namespace,
                    statistics          |-> dict_get(a, "statistics", None) ])

\* GitLabRepoResponseTransformer.from_git
GitLab_from_git(data) ==
    LET dict_data == IF data.kind = "dict" THEN data
                     ELSE transform_project_to_dict(data)
        d == dict_data.items
    IN  IF ~ truthy(data) THEN None
        ELSE IF data.kind \notin { "Project", "SimpleNamespace", "dict" }
        THEN Throw("TypeError", { data.kind })
        ELSE IF dict_data.kind = "raised" THEN dict_data
        ELSE NormalizedGitRepo(
               [ id               |-> py_str(dict_get(d, "id", Str(<< >>))),
                 repo_name        |-> dict_get(d, "name", None),
                 description      |-> dict_get(d, "description", None),
                 default_branch   |-> dict_get(d, "default_branch", Str(MAIN)),
                 forks_count      |-> dict_get(d, "forks_count", PyInt(0)),
                 stargazers_count |-> dict_get(d, "star_count", PyInt(0)),
                 html_url         |-> dict_get(d, "http_url_to_repo", None),
                 relative_path    |-> dict_get(d, "path_with_namespace", None),
                 visibility       |-> dict_get(d, "visibility", None),
                 repo_created_at  |-> dict_get(d, "created_at", None),
                 size             |-> py_or(derive_storage_size(
                                              dict_get(d, "statistics", None)),
                                            PyInt(0)),
                 private          |-> derived_private_field(
                                          dict_get(d, "visibility", None)) ])

\* GitLabRepoResponseTransformer.from_git_user: a dict only
GitLab_from_git_user(data) ==
    LET d == data.items
    IN  IF ~ truthy(data) THEN None
        ELSE IF data.kind # "dict" THEN Throw("TypeError", { data.kind })
        ELSE GitUserResponse(
               [ username   |-> dict_get(d, "username", None),
                 id         |-> dict_get(d, "id", None),
                 name       |-> dict_get(d, "name", None),
                 email      |-> dict_get(d, "email", None),
                 avatar_url |-> dict_get(d, "avatar_url", None),
                 html_url   |-> dict_get(d, "html_url", None) ])

\* resolve_git_size_from_kb_to_byte taking a kilobyte for 1000 bytes
resolve_git_size_from_kb_to_byte_Decimal(size) ==
    IF ~ truthy(size) THEN PyInt(0)
    ELSE PyInt(size.int * 1000)

\* GitHubRepoResponseTransformer.resolve_git_size_from_kb_to_byte
resolve_git_size_from_kb_to_byte(size) ==
    IF ~ truthy(size) THEN PyInt(0)
    ELSE PyInt(size.int * 1024)

\* GitHubRepoResponseTransformer.transform_repository_to_dict: every
\* attribute but visibility is read directly
transform_repository_to_dict(repository) ==
    LET a     == repository.attrs
        names == << "id", "name", "description", "default_branch",
                    "forks_count", "size", "stargazers_count", "full_name",
                    "html_url", "private", "created_at" >>
        m     == first_missing(names, a)
    IN  IF m # 0 THEN Throw("AttributeError", { names[m] })
        ELSE Dict([ id               |-> py_str(a.id),
                    name             |-> a.name,
                    description      |-> a.description,
                    default_branch   |-> py_or(a.default_branch, Str(MAIN)),
                    forks_count      |-> py_or(a.forks_count, PyInt(0)),
                    size             |-> py_or(a.size, PyInt(0)),
                    stargazers_count |-> py_or(a.stargazers_count, PyInt(0)),
                    full_name        |-> a.full_name,
                    html_url         |-> a.html_url,
                    private          |-> a.private,
                    visibility       |-> dict_get(a, "visibility", None),
                    repo_created_at  |-> a.created_at ])

\* GitHubRepoResponseTransformer.transform_authenticated_user_to_dict
transform_authenticated_user_to_dict(authenticated_user) ==
    LET a     == authenticated_user.attrs
        names == << "login", "id", "name", "email", "avatar_url", "html_url" >>
        m     == first_missing(names, a)
    IN  IF m # 0 THEN Throw("AttributeError", { names[m] })
        ELSE Dict([ login      |-> a.login,
                    id         |-> a.id,
                    name       |-> a.name,
                    email      |-> a.email,
                    avatar_url |-> a.avatar_url,
                    html_url   |-> a.html_url ])

\* GitHubRepoResponseTransformer.from_git
GitHub_from_git(data) ==
    LET dict_data == IF data.kind = "dict" THEN data
                     ELSE transform_repository_to_dict(data)
        d == dict_data.items
    IN  IF ~ truthy(data) THEN None
        ELSE IF data.kind \notin { "Repository", "SimpleNamespace", "dict" }
        THEN Throw("TypeError", { data.kind })
        ELSE IF dict_data.kind = "raised" THEN dict_data
        ELSE NormalizedGitRepo(
               [ id               |-> py_str(dict_get(d, "id", Str(<< >>))),
                 repo_name        |-> dict_get(d, "name", None),
                 description      |-> dict_get(d, "description", None),
                 default_branch   |-> dict_get(d, "default_branch", Str(MAIN)),
                 forks_count      |-> dict_get(d, "forks_count", PyInt(0)),
                 stargazers_count |-> dict_get(d, "stargazers_count", PyInt(0)),
                 relative_path    |-> dict_get(d, "full_name", None),
                 html_url         |-> dict_get(d, "html_url", None),
                 private          |-> dict_get(d, "private", None),
                 visibility       |-> dict_get(d, "visibility", None),
                 size             |-> resolve_git_size_from_kb_to_byte(
                                          dict_get(d, "size", PyInt(0))),
                 repo_created_at  |-> dict_get(d, "repo_created_at", None) ])

\* GitHubRepoResponseTransformer.from_git_user
GitHub_from_git_user(data) ==
    LET dict_data == IF data.kind = "dict" THEN data
                     ELSE transform_authenticated_user_to_dict(data)
        d == dict_data.items
    IN  IF ~ truthy(data) THEN None
        ELSE IF data.kind \notin { "AuthenticatedUser", "SimpleNamespace", "dict" }
        THEN Throw("TypeError", { data.kind })
        ELSE IF dict_data.kind = "raised" THEN dict_data
        ELSE GitUserResponse(
               [ username   |-> dict_get(d, "login", None),
                 id         |-> dict_get(d, "id", None),
                 name       |-> dict_get(d, "name", None),
                 email      |-> dict_get(d, "email", None),
                 avatar_url |-> dict_get(d, "avatar_url", None),
                 html_url   |-> dict_get(d, "html_url", None) ])

\* the entry point of one transformer a caller uses
from_git_of(transformer, method, data) ==
    CASE transformer = "GitHubRepoResponseTransformer" /\ method = "from_git"
             -> GitHub_from_git(data)
      [] transformer = "GitHubRepoResponseTransformer" /\ method = "from_git_user"
             -> GitHub_from_git_user(data)
      [] transformer = "GitLabRepoResponseTransformer" /\ method = "from_git"
             -> GitLab_from_git(data)
      [] transformer = "GitLabRepoResponseTransformer" /\ method = "from_git_user"
             -> GitLab_from_git_user(data)

-----------------------------------------------------------------------------
(* git_managers.py: the managers over the provider clients *)

GIT_AUTH_FAILED                   == "GIT_AUTH_FAILED"
GIT_PROJECT_FETCH_FAILED          == "GIT_PROJECT_FETCH_FAILED"
GIT_PROJECT_LANGUAGE_FETCH_FAILED == "GIT_PROJECT_LANGUAGE_FETCH_FAILED"
GIT_REPOS_FETCH_FAILED            == "GIT_REPOS_FETCH_FAILED"
GIT_USER_FETCH_FAILED             == "GIT_USER_FETCH_FAILED"

\* The exception classes a provider client raises, and an error that is no
\* client failure.  GitlabAuthenticationError derives from GitlabError,
\* UnknownObjectException from GithubException, HTTPError and
\* ConnectionError from requests' RequestException.
ExceptionClasses ==
    { "GithubException", "UnknownObjectException", "GitlabError",
      "GitlabAuthenticationError", "RequestException", "HTTPError",
      "ConnectionError", "ValueError" }

\* isinstance(e, cls) for an exception of class exc
isinstance_exc(exc, cls) ==
    \/ exc = cls
    \/ cls = "GithubException"  /\ exc = "UnknownObjectException"
    \/ cls = "GitlabError"      /\ exc = "GitlabAuthenticationError"
    \/ cls = "RequestException" /\ exc \in { "HTTPError", "ConnectionError" }

\* the managers and the operations of each
ManagerClasses ==
    { "GitHubManager", "AuthenticatedGitHubManager",
      "GitLabManager", "AuthenticatedGitLabManager" }

ManagerOps(cls) ==
    IF cls \in { "GitHubManager", "GitLabManager" } THEN { "authenticate" }
    ELSE { "get_project", "get_project_languages", "get_user",
           "get_user_repositories", "create_repository", "create_branch",
           "commit_files", "push_single_file" }

\* the calls an operation makes on its provider client, in order.  by_id:
\* the repository is given by name or id, not as the client's object;
\* update: push_single_file replaces a file; files: how many files
\* commit_files is given.
client_calls(cls, op, by_id, update, files) ==
    LET get_repo == IF by_id THEN << "get_repo" >> ELSE << >>
        get      == IF by_id THEN << "projects.get" >> ELSE << >>
    IN  IF cls = "GitHubManager" THEN << "Github" >>
        ELSE IF cls = "GitLabManager" THEN << "Gitlab", "auth" >>
        ELSE IF cls = "AuthenticatedGitHubManager"
        THEN CASE op = "get_project"           -> << "get_repo" >>
               [] op = "get_project_languages" -> get_repo \o << "get_languages" >>
               [] op = "get_user"              -> << "get_user" >>
               [] op = "get_user_repositories" ->
                      << "get_user", "get_repos", "get_page", "totalCount" >>
               [] op = "create_repository"     -> << "get_user", "create_repo" >>
               [] op = "create_branch"         ->
                      get_repo \o << "get_branch", "create_git_ref" >>
               [] op = "commit_files"          ->
                      get_repo \o << "get_git_ref", "get_git_tree" >>
                      \o [ i \in 1..files |-> "create_git_blob" ]
                      \o << "create_git_tree", "get_git_commit",
                            "create_git_commit", "edit" >>
               [] op = "push_single_file"      ->
                      get_repo \o IF update THEN << "get_contents", "update_file" >>
                                  ELSE << "create_file" >>
        ELSE CASE op = "get_project"           -> << "projects.get" >>
               [] op = "get_project_languages" -> get \o << "languages" >>
               [] op \in { "get_user", "get_user_repositories" } ->
                      << "get", "raise_for_status", "json" >>
               [] op = "create_repository"     -> << "projects.create" >>
               [] op = "create_branch"         -> get \o << "branches.create" >>
               [] op = "commit_files"          -> get \o << "commits.create" >>
               [] op = "push_single_file"      ->
                      get \o IF update THEN << "files.get", "save" >>
                             ELSE << "files.create" >>

\* catches, were the two REST calls of the GitLab manager guarded like its
\* SDK calls
catches_GitlabErrorOnly(cls, op) ==
    IF cls \in { "GitHubManager", "AuthenticatedGitHubManager" }
    THEN "GithubException"
    ELSE "GitlabError"

\* the exception class the operation's except clause names
catches(cls, op) ==
    IF cls \in { "GitHubManager", "AuthenticatedGitHubManager" }
    THEN "GithubException"
    ELSE IF op \in { "get_user", "get_user_repositories" }
    THEN "RequestException"
    ELSE "GitlabError"

\* the user_message of the DevDoxGitException the operation raises (for
\* the four writing operations, the text before ": " and str(e))
user_message(op) ==
    CASE op = "authenticate"          -> GIT_AUTH_FAILED
      [] op = "get_project"           -> GIT_PROJECT_FETCH_FAILED
      [] op = "get_project_languages" -> GIT_PROJECT_LANGUAGE_FETCH_FAILED
      [] op = "get_user"              -> GIT_USER_FETCH_FAILED
      [] op = "get_user_repositories" -> GIT_REPOS_FETCH_FAILED
      [] op = "create_repository"     -> "Failed to create repository"
      [] op = "create_branch"         -> "Failed to create branch"
      [] op = "commit_files"          -> "Failed to commit files"
      [] op = "push_single_file"      -> "Failed to push file"

\* what a call ended in: the value it returned (Throw when it raised)
Return(value) == [ kind |-> "returned", value |-> value ]

\* One operation of a manager, run against a client whose fault.at-th
\* call (counted over the whole handler, done of them made before) raises
\* fault.exc: the client calls made, and the result, the
\* DevDoxGitException of the except clause, or the client's exception
\* when the clause does not name its class.
manager_call(cls, op, by_id, update, files, done, fault, result) ==
    LET steps == client_calls(cls, op, by_id, update, files)
        k     == fault.at - done
        fails == k \in 1..Len(steps)
    IN  [ client  |-> IF fails THEN SubSeq(steps, 1, k) ELSE steps,
          outcome |-> IF ~ fails THEN Return(result)
                      ELSE IF isinstance_exc(fault.exc, catches(cls, op))
                      THEN Throw("DevDoxGitException", { user_message(op) })
                      ELSE Throw(fault.exc, {}) ]

\* validate_per_page clamping to the nearest bound, as the GitLab manager does
validate_per_page_Clamped(per_page) ==
    IF per_page < 1 THEN 1 ELSE IF per_page > 100 THEN 100 ELSE per_page

\* GitHubManager.validate_per_page
validate_per_page(per_page) ==
    IF 1 <= per_page /\ per_page <= 100 THEN per_page ELSE 30

\* GitHubManager.validate_page
validate_page(page) == IF page >= 1 THEN page ELSE 1

\* get_pagination_info counting only the full pages
get_pagination_info_FullPages(total_count, page, per_page) ==
    LET total_pages   == total_count \div per_page
        has_next_page == page < total_pages
        has_prev_page == page > 1
    IN  [ current_page  |-> page,
          per_page      |-> per_page,
          total_count   |-> total_count,
          total_pages   |-> total_pages,
          has_next_page |-> has_next_page,
          has_prev_page |-> has_prev_page,
          next_page     |-> IF has_next_page THEN PyInt(page + 1) ELSE None,
          prev_page     |-> IF has_prev_page THEN PyInt(page - 1) ELSE None ]

\* GitHubManager.get_pagination_info
get_pagination_info(total_count, page, per_page) ==
    LET total_pages   == (total_count + per_page - 1) \div per_page
        has_next_page == page < total_pages
        has_prev_page == page > 1
    IN  [ current_page  |-> page,
          per_page      |-> per_page,
          total_count   |-> total_count,
          total_pages   |-> total_pages,
          has_next_page |-> has_next_page,
          has_prev_page |-> has_prev_page,
          next_page     |-> IF has_next_page THEN PyInt(page + 1) ELSE None,
          prev_page     |-> IF has_prev_page THEN PyInt(page - 1) ELSE None ]

\* the repositories 1..total of the account that fall on one page (index
\* from 0), as the provider serves them
get_page(total, index, per_page) ==
    LET first == index * per_page
        n     == IF total - first < 0 THEN 0
                 ELSE IF total - first < per_page THEN total - first
                 ELSE per_page
    IN  [ j \in 1..n |-> first + j ]

\* what AuthenticatedGitHubManager.get_user_repositories returns
GitHub_get_user_repositories(total, page, per_page) ==
    LET pp == validate_per_page(per_page)
        p  == validate_page(page)
    IN  [ repositories    |-> get_page(total, p - 1, pp),
          pagination_info |-> get_pagination_info(total, p, pp) ]

\* what AuthenticatedGitLabManager.get_user_repositories returns; headers:
\* the response carries the X-Total, X-Total-Pages, X-Next-Page and
\* X-Prev-Page headers
GitLab_get_user_repositories(total, headers, page, per_page) ==
    LET pp    == IF per_page < 1 THEN 1 ELSE IF per_page > 100 THEN 100 ELSE per_page
        p     == IF page < 1 THEN 1 ELSE page
        pages == (total + pp - 1) \div pp
    IN  [ repositories    |-> get_page(total, p - 1, pp),
          pagination_info |->
            [ current_page |-> p,
              per_page     |-> pp,
              total_count  |-> IF headers THEN total ELSE 0,
              total_pages  |-> IF headers THEN pages ELSE 1,
              next_page    |-> IF headers /\ p < pages THEN PyInt(p + 1) ELSE None,
              prev_page    |-> IF headers /\ p > 1 THEN PyInt(p - 1) ELSE None ] ]

\* the calls on the client by name, each with the arguments given for its
\* name
with_arguments(names, arguments) ==
    [ i \in 1..Len(names) |->
        [ to   |-> "client",
          op   |-> names[i],
          args |-> IF names[i] \in DOMAIN arguments
                   THEN arguments[names[i]] ELSE << >> ] ]

\* create_repository making the repository private for 'internal' too, as
\* the GitLab transformer reads a visibility
create_repo_arguments_InternalIsPrivate(args) ==
    [ name        |-> args.name,
      description |-> py_or(args.description, Str(<< >>)),
      private     |-> Bool(\/ py_eq(args.visibility, Str(PRIVATE))
                           \/ py_eq(args.visibility, Str(INTERNAL))),
      auto_init   |-> args.auto_init ]

\* AuthenticatedGitHubManager.create_repository: the arguments of
\* user.create_repo
create_repo_arguments(args) ==
    [ name        |-> args.name,
      description |-> py_or(args.description, Str(<< >>)),
      private     |-> Bool(py_eq(args.visibility, Str(PRIVATE))),
      auto_init   |-> args.auto_init ]

\* A repository at the provider: the git objects it holds, a sha being the
\* position of the object, and the commits the branch has pointed at, the
\* last of them its head.
head_of(repo) == repo.reflog[Len(repo.reflog)]

blob(content)     == [ type |-> "blob", content |-> content ]
tree(base, paths) == [ type |-> "tree", base |-> base, paths |-> paths ]
commit(message, tree_sha, parents, author) ==
    [ type |-> "commit", message |-> message, tree |-> tree_sha,
      parents |-> parents, author |-> author ]

\* InputGitAuthor(name, email) if author_name and author_email, else None
input_author(author_name, author_email) ==
    IF truthy(author_name) /\ truthy(author_email)
    THEN Object("InputGitAuthor", [ name |-> author_name, email |-> author_email ])
    ELSE None

\* commit_files moving the branch to the new commit whatever was made of it
commit_files_effect_RefFirst(repo, args, first, made) ==
    [ objects |-> repo.objects,
      reflog  |-> Append(repo.reflog, Len(repo.objects) + Len(args.files) + 2) ]

\* AuthenticatedGitHubManager.commit_files: the repository once the first
\* `made` of its client calls returned, `first` being the position of
\* get_git_ref among them (after get_repo when the repository is a name)
commit_files_effect(repo, args, first, made) ==
    LET n          == Len(args.files)
        branch_sha == head_of(repo)
        blobs      == IF made < first + 2 THEN 0
                      ELSE IF made - (first + 1) > n THEN n
                      ELSE made - (first + 1)
        has_tree   == made >= first + 2 + n
        has_commit == made >= first + 4 + n
        moved      == made >= first + 5 + n
        tree_sha   == Len(repo.objects) + n + 1
        commit_sha == tree_sha + 1
    IN  [ objects |->
            repo.objects
            \o [ i \in 1..blobs |-> blob(args.files[i].content) ]
            \o ( IF has_tree
                 THEN << tree(branch_sha,
                              [ i \in 1..n |->
                                  [ path |-> args.files[i].path,
                                    sha  |-> Len(repo.objects) + i ] ]) >>
                 ELSE << >> )
            \o ( IF has_commit
                 THEN << commit(args.commit_message, tree_sha, << branch_sha >>,
                                input_author(args.author_name, args.author_email)) >>
                 ELSE << >> ),
          reflog  |-> IF moved THEN Append(repo.reflog, commit_sha)
                      ELSE repo.reflog ]

\* what commit_files returns
commit_files_result(repo, args) ==
    Dict([ commit_sha  |-> PyInt(Len(repo.objects) + Len(args.files) + 2),
           message     |-> args.commit_message,
           files_count |-> PyInt(Len(args.files)) ])

-----------------------------------------------------------------------------
(* repo_fetcher.py: the fetchers over the managers *)

Fetchers == { "GitHubRepoFetcher", "GitLabRepoFetcher" }

\* the manager a fetcher holds, and the authenticated manager it obtains
manager_of(fetcher) ==
    IF fetcher = "GitHubRepoFetcher" THEN "GitHubManager" ELSE "GitLabManager"

authenticated_of(fetcher) ==
    IF fetcher = "GitHubRepoFetcher" THEN "AuthenticatedGitHubManager"
    ELSE "AuthenticatedGitLabManager"

\* [*languages]: the keys of a mapping, in its order
keys(mapping) == [ i \in 1..Len(mapping) |-> mapping[i].name ]

\* a call the fetcher makes on a manager or on the parser, and the calls
\* the manager makes on the client in it
on_manager(op, args) == [ to |-> "manager", op |-> op, args |-> args ]
on_parser(remote)    == [ to |-> "parser", op |-> "parse_git_remote",
                          args |-> [ remote |-> remote ] ]
on_client(names)     == [ i \in 1..Len(names) |->
                            [ to |-> "client", op |-> names[i], args |-> << >> ] ]

\* a fetcher that keeps the authenticated manager of its first operation
\* and authenticates no more
authenticate_Reusing(fetcher, fault) ==
    LET m == manager_call(manager_of(fetcher), "authenticate",
                          FALSE, FALSE, 0, 0, fault, authenticated_of(fetcher))
    IN  IF heap # << >>
        THEN [ calls |-> << >>, client |-> 0,
               outcome |-> Return(authenticated_of(fetcher)) ]
        ELSE [ calls   |-> << on_manager("authenticate", << >>) >> \o on_client(m.client),
               client  |-> Len(m.client),
               outcome |-> m.outcome ]

\* self.manager.authenticate(token): the calls made and the outcome
authenticate(fetcher, fault) ==
    LET m == manager_call(manager_of(fetcher), "authenticate",
                          FALSE, FALSE, 0, 0, fault, authenticated_of(fetcher))
    IN  [ calls   |-> << on_manager("authenticate", << >>) >> \o on_client(m.client),
          client  |-> Len(m.client),
          outcome |-> m.outcome ]

\* the heap after self.manager.authenticate(token): with one more
\* authenticated manager when it returned
authenticated(h, fetcher, fault) ==
    IF authenticate(fetcher, fault).outcome.kind = "returned"
    THEN Append(h, instance(authenticated_of(fetcher), Len(h) + 1))
    ELSE h

\* fetch_user_repositories asking for page = offset
fetch_user_repositories_PageIsOffset(fetcher, offset, limit, world, fault) ==
    LET a      == authenticate(fetcher, fault)
        page   == offset
        result == IF fetcher = "GitHubRepoFetcher"
                  THEN GitHub_get_user_repositories(world.total, page, limit)
                  ELSE GitLab_get_user_repositories(world.total, world.headers,
                                                    page, limit)
        m      == manager_call(authenticated_of(fetcher), "get_user_repositories",
                               FALSE, FALSE, 0, a.client, fault, result)
        calls  == a.calls
                  \o << on_manager("get_user_repositories",
                                   [ page |-> page, per_page |-> limit ]) >>
                  \o on_client(m.client)
    IN  IF a.outcome.kind = "raised"
        THEN [ calls |-> a.calls, outcome |-> a.outcome ]
        ELSE IF m.outcome.kind = "raised"
        THEN [ calls |-> calls, outcome |-> m.outcome ]
        ELSE [ calls   |-> calls,
               outcome |-> Return(
                   [ data_count |-> result.pagination_info.total_count,
                     data       |-> result.repositories ]) ]

\* fetch_user_repositories(token, offset, limit) of either fetcher
fetch_user_repositories(fetcher, offset, limit, world, fault) ==
    LET a      == authenticate(fetcher, fault)
        page   == offset + 1
        result == IF fetcher = "GitHubRepoFetcher"
                  THEN GitHub_get_user_repositories(world.total, page, limit)
                  ELSE GitLab_get_user_repositories(world.total, world.headers,
                                                    page, limit)
        m      == manager_call(authenticated_of(fetcher), "get_user_repositories",
                               FALSE, FALSE, 0, a.client, fault, result)
        calls  == a.calls
                  \o << on_manager("get_user_repositories",
                                   [ page |-> page, per_page |-> limit ]) >>
                  \o on_client(m.client)
    IN  IF a.outcome.kind = "raised"
        THEN [ calls |-> a.calls, outcome |-> a.outcome ]
        ELSE IF m.outcome.kind = "raised"
        THEN [ calls |-> calls, outcome |-> m.outcome ]
        ELSE [ calls   |-> calls,
               outcome |-> Return(
                   [ data_count |-> result.pagination_info.total_count,
                     data       |-> result.repositories ]) ]

\* a fetcher without the test for a missing repository or user
nothing_found_Never(value) == FALSE

\* "if not repository" / "if not user": the fetcher returns None
nothing_found(value) == ~ truthy(value)

\* the body of fetch_single_repo once relative_path is parsed to repo_ref
get_single_repo(fetcher, relative_path, repo_ref, world, fault) ==
    LET a          == authenticate(fetcher, fault)
        repository == IF world.found
                      THEN Object(IF fetcher = "GitHubRepoFetcher"
                                  THEN "Repository" ELSE "Project",
                                  [ full_name |-> Str(repo_ref.full_name) ])
                      ELSE None
        g          == manager_call(authenticated_of(fetcher), "get_project",
                                   TRUE, FALSE, 0, a.client, fault, repository)
        l          == manager_call(authenticated_of(fetcher), "get_project_languages",
                                   FALSE, FALSE, 0, a.client + Len(g.client),
                                   fault, world.languages)
        parsed     == a.calls \o << on_parser(relative_path) >>
        looked     == parsed
                      \o << on_manager("get_project",
                                       [ full_name_or_id |-> repo_ref.full_name ]) >>
                      \o on_client(g.client)
        listed     == looked
                      \o << on_manager("get_project_languages",
                                       [ repository |-> repository ]) >>
                      \o on_client(l.client)
    IN  IF a.outcome.kind = "raised"
        THEN [ calls |-> a.calls, outcome |-> a.outcome ]
        ELSE IF repo_ref.status # "ok"
        THEN [ calls   |-> parsed,
               outcome |-> IF repo_ref.status \in { "IndexError", "ValueError" }
                           THEN Throw(repo_ref.status, {})
                           ELSE Throw("DevDoxGitException", { repo_ref.status }) ]
        ELSE IF g.outcome.kind = "raised"
        THEN [ calls |-> looked, outcome |-> g.outcome ]
        ELSE IF nothing_found(repository)
        THEN [ calls |-> looked, outcome |-> Return(None) ]
        ELSE IF l.outcome.kind = "raised"
        THEN [ calls |-> listed, outcome |-> l.outcome ]
        ELSE [ calls   |-> listed,
               outcome |-> Return(Tuple(<< repository,
                                           List(keys(world.languages)) >>)) ]

\* fetch_single_repo looking the project up by the remote as it was given
fetch_single_repo_ByRemote(fetcher, relative_path, world, fault) ==
    get_single_repo(fetcher, relative_path,
                    [ parse_git_remote(relative_path) EXCEPT !.full_name = relative_path ],
                    world, fault)

\* fetch_single_repo(token, relative_path) of either fetcher
fetch_single_repo(fetcher, relative_path, world, fault) ==
    get_single_repo(fetcher, relative_path, parse_git_remote(relative_path),
                    world, fault)

\* the operation of the authenticated manager a fetcher's operation calls
manager_op(op) == IF op = "fetch_repo_user" THEN "get_user" ELSE op

\* the operations that are given a repository, by name, id or object
RepositoryOps == { "create_branch", "commit_files", "push_single_file" }

\* the keyword arguments of push_single_file without the author
push_arguments(repository_key, args) ==
    [ k \in { repository_key, "file_path", "content", "commit_message",
              "branch", "update" } |->
        IF k = repository_key THEN args.repository ELSE args[k] ]

\* the keyword arguments of commit_files, and of GitLab's push_single_file
with_author(arguments, args) ==
    [ k \in DOMAIN arguments \cup { "author_name", "author_email" } |->
        IF k \in DOMAIN arguments THEN arguments[k] ELSE args[k] ]

\* forwarded, did GitHub's push_single_file pass the author on as GitLab's
forwarded_AuthorToGitHub(fetcher, op, args) ==
    LET repository_key == IF fetcher = "GitHubRepoFetcher"
                          THEN "repository" ELSE "project_or_id"
    IN  CASE op = "fetch_repo_user"   -> << >>
          [] op = "create_repository" ->
                 [ name        |-> args.name,
                   description |-> py_or(args.description, Str(<< >>)),
                   visibility  |-> args.visibility ]
          [] op = "create_branch"     ->
                 << args.project_id, args.branch_name, args.source_branch >>
          [] op = "commit_files"      ->
                 with_author([ k \in { repository_key, "branch", "files",
                                       "commit_message" } |->
                                 IF k = repository_key THEN args.repository
                                 ELSE args[k] ], args)
          [] op = "push_single_file"  ->
                 with_author(push_arguments(repository_key, args), args)

\* the arguments a fetcher's operation passes to the manager's operation:
\* keyword arguments as a record, positional ones as a tuple
forwarded(fetcher, op, args) ==
    LET repository_key == IF fetcher = "GitHubRepoFetcher"
                          THEN "repository" ELSE "project_or_id"
    IN  CASE op = "fetch_repo_user"   -> << >>
          [] op = "create_repository" ->
                 [ name        |-> args.name,
                   description |-> py_or(args.description, Str(<< >>)),
                   visibility  |-> args.visibility ]
          [] op = "create_branch"     ->
                 << args.project_id, args.branch_name, args.source_branch >>
          [] op = "commit_files"      ->
                 with_author([ k \in { repository_key, "branch", "files",
                                       "commit_message" } |->
                                 IF k = repository_key THEN args.repository
                                 ELSE args[k] ], args)
          [] op = "push_single_file"  ->
                 IF fetcher = "GitHubRepoFetcher"
                 THEN push_arguments(repository_key, args)
                 ELSE with_author(push_arguments(repository_key, args), args)

\* the repository an operation of the manager is given
repository_of(op, args) ==
    IF op = "create_branch" THEN args.project_id ELSE args.repository

\* isinstance(repository, str) of the GitHub manager,
\* isinstance(project_or_id, int) of the GitLab manager: the manager looks
\* the repository up
looks_up(fetcher, repository) ==
    IF fetcher = "GitHubRepoFetcher"
    THEN repository.kind = "str" ELSE repository.kind = "int"

\* the operation uses its repository argument as the client's object
\* though it is a name or an id
not_an_object(fetcher, op, args) ==
    /\ op \in RepositoryOps
    /\ repository_of(op, args).kind \in { "str", "int" }
    /\ ~ looks_up(fetcher, repository_of(op, args))

\* what the provider answers a fetcher's operation with
answer(op, args, world) ==
    CASE op = "fetch_repo_user"   -> world.user
      [] op = "create_repository" ->
             Object("created", [ name |-> args.name ])
      [] op = "create_branch"     ->
             Dict([ name |-> args.branch_name ])
      [] op = "commit_files"      ->
             Dict([ files_count |-> PyInt(Len(args.files)) ])
      [] op = "push_single_file"  ->
             Dict([ file_path |-> args.file_path ])

\* create_repository, create_branch, fetch_repo_user, commit_files and
\* push_single_file of either fetcher
fetcher_operation(fetcher, op, args, world, fault) ==
    LET a      == authenticate(fetcher, fault)
        result == answer(op, args, world)
        m      == manager_call(authenticated_of(fetcher), manager_op(op),
                               op \in RepositoryOps, 
                               IF op = "push_single_file" THEN args.update ELSE FALSE,
                               IF op = "commit_files" THEN Len(args.files) ELSE 0,
                               a.client, fault, result)
        called == a.calls
                  \o << on_manager(manager_op(op), forwarded(fetcher, op, args)) >>
    IN  IF a.outcome.kind = "raised"
        THEN [ calls |-> a.calls, outcome |-> a.outcome ]
        ELSE IF not_an_object(fetcher, op, args)
        THEN [ calls |-> called, outcome |-> Throw("AttributeError", {}) ]
        ELSE IF m.outcome.kind = "raised"
        THEN [ calls |-> called \o on_client(m.client), outcome |-> m.outcome ]
        ELSE IF op = "fetch_repo_user" /\ nothing_found(result)
        THEN [ calls |-> called \o on_client(m.client), outcome |-> Return(None) ]
        ELSE [ calls |-> called \o on_client(m.client), outcome |-> Return(result) ]

-----------------------------------------------------------------------------
(* The payloads given to the transformers. *)

Transformers == { "GitHubRepoResponseTransformer", "GitLabRepoResponseTransformer" }

Methods == { "from_git", "from_git_user" }

NoEntry == [ transformer |-> "-", method |-> "-" ]

\* sizes a provider reports: GitHub in kilobytes, GitLab in bytes
Sizes == 0..MaxSize \cup { 50, 2048 }

\* visibilities a GitLab payload carries
Visibilities ==
    { PRIVATE, << "P", "R", "I", "V", "A", "T", "E" >>, << "P", "r", "i", "v", "a", "t", "e" >>, INTERNAL, << "I", "n", "t", "e", "r", "n", "a", "l" >>, << "I", "N", "T", "E", "R", "N", "A", "L" >>, << "p", "u", "b", "l", "i", "c" >>, << "P", "u", "b", "l", "i", "c" >>, << "p", "r", "i", "v", "a", "t" >>, << >> }

\* statistics a GitLab payload carries: empty, without the size, with it
Statistics ==
    { Dict(<< >>), Dict([ commit_count |-> PyInt(3) ]) }
    \cup { Dict([ repository_size |-> PyInt(n) ]) : n \in Sizes }

\* the attributes of a github Repository, all of them set
GitHubRepo(size) ==
    [ id               |-> PyInt(100),
      name             |-> Str(<< "r" >>),
      description      |-> Str(<< "d" >>),
      default_branch   |-> Str(<< "d", "e", "v" >>),
      forks_count      |-> PyInt(3),
      size             |-> PyInt(size),
      stargazers_count |-> PyInt(11),
      full_name        |-> Str(<< "o", "/", "r" >>),
      html_url         |-> Str(<< "u" >>),
      private          |-> Bool(TRUE),
      visibility       |-> Str(PRIVATE),
      created_at       |-> Datetime(2022) ]

\* the attributes of a gitlab Project, all of them set
GitLabProject(visibility, statistics) ==
    [ id                  |-> PyInt(123),
      name                |-> Str(<< "r" >>),
      description         |-> Str(<< "d" >>),
      default_branch      |-> Str(<< "d", "e", "v" >>),
      forks_count         |-> PyInt(5),
      star_count          |-> PyInt(7),
      http_url_to_repo    |-> Str(<< "u" >>),
      path_with_namespace |-> Str(<< "g", "/", "r" >>),
      visibility          |-> Str(visibility),
      created_at          |-> Datetime(2020),
      statistics          |-> statistics ]

\* the fields of a user, under the provider's name for the user name
User(username_key) ==
    [ k \in { username_key, "id", "name", "email", "avatar_url", "html_url" } |->
        IF k = "id" THEN PyInt(42) ELSE Str(<< "x" >>) ]

\* what a payload lacks: some of its fields, each null or not there at all
Holes(fields) ==
    UNION { [ S -> { "null", "absent" } ] :
              S \in { S \in SUBSET fields : Cardinality(S) <= MaxHoles } }

\* the fields with the holes made
with_holes(fields, holes) ==
    [ k \in { k \in DOMAIN fields :
                k \notin DOMAIN holes \/ holes[k] = "null" } |->
        IF k \in DOMAIN holes THEN None ELSE fields[k] ]

\* the mapping of a GitHub repository under the keys from_git reads:
\* created_at is read as repo_created_at
as_github_mapping(fields) ==
    [ k \in { IF k = "created_at" THEN "repo_created_at" ELSE k :
                k \in DOMAIN fields } |->
        IF k = "repo_created_at" THEN fields["created_at"] ELSE fields[k] ]

\* the classes of the objects with attributes
Classes == { "SimpleNamespace", "Project", "Repository", "AuthenticatedUser" }

\* the class of the provider's own object for an entry point
native(transformer, method) ==
    IF transformer = "GitLabRepoResponseTransformer" THEN "Project"
    ELSE IF method = "from_git" THEN "Repository"
    ELSE "AuthenticatedUser"

\* a payload of one kind from its fields: a dict, or an object of a class.
\* An attribute of a github object is always there (it may be null), so
\* such an object takes no "absent" hole; an object of another provider's
\* class comes whole.
Shaped(transformer, method, kind, fields, holes) ==
    IF kind = "dict" THEN { Dict(with_holes(fields, holes)) }
    ELSE IF \/ /\ kind \in { "Repository", "AuthenticatedUser" }
               /\ \E k \in DOMAIN holes : holes[k] = "absent"
            \/ /\ kind \notin { "SimpleNamespace", native(transformer, method) }
               /\ DOMAIN holes # {}
    THEN {}
    ELSE { Object(kind, with_holes(fields, holes)) }

\* the repositories and users a provider's transformer is given, as
\* the sets of their fields
FieldSets(transformer, method) ==
    IF method = "from_git_user"
    THEN { User(IF transformer = "GitHubRepoResponseTransformer"
                THEN "login" ELSE "username") }
    ELSE IF transformer = "GitHubRepoResponseTransformer"
    THEN { GitHubRepo(size) : size \in Sizes }
    ELSE { GitLabProject(v, Dict([ repository_size |-> PyInt(2048) ])) :
             v \in Visibilities }
         \cup { GitLabProject(v, s) : v \in { INTERNAL, << >> }, s \in Statistics }

\* Values that are no payload: None, empty and non-empty values of other
\* types, and a bare object().
Others ==
    { None, Dict(<< >>), List(<< >>), List(<< Str(<< "x" >>) >>),
      Str(<< >>), Str(<< "x" >>), PyInt(0), PyInt(5), Bool(FALSE), Bool(TRUE),
      Object("object", << >>) }

\* one repository or user as a caller passes it, with holes: as a dict or
\* as an object of a class.  The dict of a GitHub repository comes under the
\* provider's keys and under the keys from_git reads.
PayloadsOf(transformer, method, kind, fields, holes) ==
    Shaped(transformer, method, kind, fields, holes)
    \cup IF /\ transformer = "GitHubRepoResponseTransformer"
            /\ method = "from_git"
            /\ kind = "dict"
         THEN { Dict(as_github_mapping(with_holes(fields, holes))) }
         ELSE {}

-----------------------------------------------------------------------------
(* The requests made of the fetchers and managers. *)

NoRequest == [ target |-> "-", op |-> "-", offset |-> 0, limit |-> 0,
               by_id |-> FALSE, update |-> FALSE, files |-> 0 ]

NoWorld ==
    [ total |-> 0, headers |-> TRUE, found |-> TRUE, languages |-> << >>,
      user |-> None ]

NoFault == [ at |-> 0, exc |-> "-" ]

\* what the provider serves as the languages of a project: a mapping from
\* the language name to its share, in the order served
Languages ==
    { << >>,
      << [ name |-> "Python", share |-> 70 ], [ name |-> "Go", share |-> 30 ] >> }

\* what the provider serves as the authenticated user: an object (GitHub),
\* a JSON object (GitLab), an empty JSON object, nothing
Users ==
    { Object("AuthenticatedUser", User("login")), Dict(User("username")),
      Dict(<< >>), None }

\* the providers' accounts: how many repositories, whether the GitLab
\* response carries the pagination headers, whether the project looked up
\* is there, the languages of it, and the authenticated user
Worlds ==
    [ total : 0..MaxRepos, headers : BOOLEAN, found : BOOLEAN,
      languages : Languages, user : Users ]

\* no client call fails, or the at-th of at most n fails with a class
Faults(n) == { NoFault } \cup [ at : 1..n, exc : ExceptionClasses ]

\* offsets and limits a caller passes: small ones, one below the first
\* page, and limits at and beyond the largest page size
Offsets == (0 - 1)..MaxOffset

Limits == 0..MaxOffset \cup { 50, 100, 101 }

\* remotes fetched against every world and fault
SampleRemotes ==
    { << "o", "/", "r" >>,
      GITLAB \o << ".", "c", "o", "m", ":", "g", "/", "s", "/", "r", ".", "g", "i", "t" >>,
      << "r" >> }

\* pages, page sizes and repository counts given to the GitHub manager:
\* below, at and beyond each limit of validate_page and validate_per_page
Pages == (0 - 1)..(MaxOffset + 1)

PerPages == (0 - 1)..MaxOffset \cup { 30, 99, 100, 101 }

Totals == 0..MaxRepos \cup { 100, 101 }

\* a call of the GitHub manager's listing or of its pagination arithmetic
PagingRequest(op, total_count, page, per_page) ==
    [ target |-> "AuthenticatedGitHubManager", op |-> op,
      args |-> [ total_count |-> total_count, page |-> page,
                 per_page |-> per_page ] ]

\* repositories as a caller names them: by full name, by numeric id
Repositories == { Str(<< "o", "/", "r" >>), PyInt(7) }

\* the files of a commit: path and content of each, in order
Files(n) == [ i \in 1..n |-> [ path |-> << "f", DigitChars[i + 1] >>,
                                content |-> << "c" >> ] ]

\* the author a caller gives: no name or a name, no email or an email
AuthorNames == { None, Str(<< "A" >>) }

AuthorEmails == { None, Str(<< "a", "@", "x" >>) }

\* the arguments callers give the operations of a fetcher, the token aside
Arguments(op) ==
    CASE op = "fetch_repo_user"   -> { << >> }
      [] op = "create_repository" ->
             [ name        : { Str(<< "r" >>) },
               description : { None, Str(<< >>), Str(<< "d" >>) },
               visibility  : { Str(PRIVATE), Str(INTERNAL),
                               Str(<< "p", "u", "b", "l", "i", "c" >>) } ]
      [] op = "create_branch"     ->
             [ project_id    : Repositories,
               branch_name   : { Str(<< "d", "e", "v" >>) },
               source_branch : { None, Str(MAIN) } ]
      [] op = "commit_files"      ->
             [ repository     : Repositories,
               branch         : { Str(MAIN) },
               files          : { Files(n) : n \in 0..MaxFiles },
               commit_message : { Str(<< "m" >>) },
               author_name    : AuthorNames,
               author_email   : AuthorEmails ]
      [] op = "push_single_file"  ->
             [ repository     : Repositories,
               file_path      : { Str(<< "f" >>) },
               content        : { Str(<< "c" >>) },
               commit_message : { Str(<< "m" >>) },
               branch         : { Str(MAIN) },
               update         : BOOLEAN,
               author_name    : AuthorNames,
               author_email   : AuthorEmails ]

\* the operations of a fetcher that pass their arguments to one operation
\* of the manager
FetcherOps ==
    { "fetch_repo_user", "create_repository", "create_branch", "commit_files",
      "push_single_file" }

OperationRequest(fetcher, op, args) ==
    [ target |-> fetcher, op |-> op, args |-> args ]

FetchRequest(fetcher, op, offset, limit) ==
    [ target |-> fetcher, op |-> op, offset |-> offset, limit |-> limit,
      by_id |-> FALSE, update |-> FALSE, files |-> 0 ]

\* the operations of the managers with the arguments that decide their
\* client calls
ManagerRequests ==
    { r \in [ target : ManagerClasses,
              op     : UNION { ManagerOps(cls) : cls \in ManagerClasses },
              offset : { 0 }, limit : { 0 },
              by_id  : BOOLEAN, update : BOOLEAN, files : 0..MaxFiles ] :
        /\ r.op \in ManagerOps(r.target)
        /\ r.by_id => r.op \in { "get_project_languages", "create_branch",
                                 "commit_files", "push_single_file" }
        /\ r.update => r.op = "push_single_file"
        /\ r.files # 0 => r.op = "commit_files" }

\* the repositories commit_files is run on: a branch whose head is the
\* first commit, or the second of two
RepositoryStates ==
    LET root   == commit(<< "0" >>, 0, << >>, None)
        second == commit(<< "1" >>, 0, << 1 >>, None)
    IN  { [ objects |-> << root >>, reflog |-> << 1 >> ],
          [ objects |-> << root, second >>, reflog |-> << 2 >> ] }

\* the arguments callers give the writing operations of
\* AuthenticatedGitHubManager
WriteArguments(op) ==
    CASE op = "create_repository" ->
             [ name        : { Str(<< "r" >>) },
               description : { None, Str(<< >>), Str(<< "d" >>) },
               visibility  : { Str(PRIVATE), Str(INTERNAL), Str(<< >>),
                               Str(<< "p", "u", "b", "l", "i", "c" >>),
                               Str(<< "P", "r", "i", "v", "a", "t", "e" >>) },
               auto_init   : { Bool(TRUE), Bool(FALSE) } ]
      [] op = "commit_files"      ->
             [ repository     : { Str(<< "o", "/", "r" >>),
                                  Object("Repository", << >>) },
               branch         : { Str(MAIN) },
               files          : { Files(n) : n \in 0..MaxFiles },
               commit_message : { Str(<< "m" >>) },
               author_name    : AuthorNames \cup { Str(<< >>) },
               author_email   : AuthorEmails ]

WriteOps == { "create_repository", "commit_files" }

WriteRequest(op, args) ==
    [ target |-> "AuthenticatedGitHubManager", op |-> op, args |-> args ]

\* the repository is given commit_files by name
given_by_name(args) == args.repository.kind = "str"

-----------------------------------------------------------------------------
(* The state machine. *)

\* a caller about to fetch one repository, by a composed remote, by any
\* remote, or by a sample remote from an account where calls may fail; or
\* about to list the repositories of an account
InitFetch ==
    /\ ref = NoRef
    /\ ref2 = NoRef
    /\ provider_arg = None
    /\ components = NoComponents
    /\ entry = NoEntry
    /\ payload = None
    /\ normalized = None
    /\ trace = << >>
    /\ outcome = None
    /\ heap = << >>
    /\ threads = << >>
    /\ \E fetcher \in Fetchers :
        \/ /\ pc = "compose"
           /\ raw_remote = << >>
           /\ wanted \in [ namespace : Namespaces, repo : Names ]
           /\ request = FetchRequest(fetcher, "fetch_single_repo", 0, 0)
           /\ account \in { w \in Worlds : /\ w.total = 0 /\ w.headers /\ w.found
                                            /\ w.user = None /\ w.languages # << >> }
           /\ failure = NoFault
        \/ /\ pc = "parse"
           /\ wanted = NoWanted
           /\ request = FetchRequest(fetcher, "fetch_single_repo", 0, 0)
           /\ \/ /\ raw_remote \in Remotes
                 /\ account \in { w \in Worlds : /\ w.total = 0 /\ w.headers
                                                  /\ w.found /\ w.user = None
                                                  /\ w.languages # << >> }
                 /\ failure = NoFault
              \/ /\ raw_remote \in SampleRemotes
                 /\ account \in { w \in Worlds : /\ w.total = 0 /\ w.headers
                                                  /\ w.user = None }
                 /\ failure \in Faults(4)
        \/ /\ pc = "fetch"
           /\ raw_remote = << >>
           /\ wanted = NoWanted
           /\ \E offset \in Offsets, limit \in Limits :
                 request = FetchRequest(fetcher, "fetch_user_repositories",
                                        offset, limit)
           /\ account \in { w \in Worlds : /\ w.found /\ w.user = None
                                            /\ w.languages = << >> }
           /\ failure \in Faults(6)
        \/ /\ pc = "operate"
           /\ raw_remote = << >>
           /\ wanted = NoWanted
           /\ \E op \in FetcherOps :
                 /\ \E args \in Arguments(op) :
                       request = OperationRequest(fetcher, op, args)
                 /\ account \in { w \in Worlds :
                                    /\ w.total = 0 /\ w.headers /\ w.found
                                    /\ w.languages = << >>
                                    /\ op # "fetch_repo_user" => w.user = None }
           /\ failure \in Faults(8 + MaxFiles)

\* a caller about to invoke one operation of a manager
InitManager ==
    /\ pc = "manage"
    /\ raw_remote = << >>
    /\ ref = NoRef
    /\ ref2 = NoRef
    /\ wanted = NoWanted
    /\ provider_arg = None
    /\ components = NoComponents
    /\ entry = NoEntry
    /\ payload = None
    /\ normalized = None
    /\ request \in ManagerRequests
    /\ account = NoWorld
    /\ failure \in Faults(Len(client_calls(request.target, request.op,
                                           request.by_id, request.update,
                                           request.files)))
    /\ trace = << >>
    /\ outcome = None
    /\ heap = << >>
    /\ threads = << >>

\* a caller about to list an account's repositories with a page and a page
\* size, or about to compute the pagination of a count
InitPaging ==
    /\ pc = "page"
    /\ raw_remote = << >>
    /\ ref = NoRef
    /\ ref2 = NoRef
    /\ wanted = NoWanted
    /\ provider_arg = None
    /\ components = NoComponents
    /\ entry = NoEntry
    /\ payload = None
    /\ normalized = None
    /\ \E op \in { "get_user_repositories", "get_pagination_info" },
          total \in Totals, page \in Pages, per_page \in PerPages :
          /\ request = PagingRequest(op, total, page, per_page)
          /\ account = [ NoWorld EXCEPT !.total = total ]
    /\ failure = NoFault
    /\ trace = << >>
    /\ outcome = None
    /\ heap = << >>
    /\ threads = << >>

\* a caller about to create a repository or to commit files through an
\* AuthenticatedGitHubManager whose client may fail at one call
InitWrite ==
    /\ pc = "write"
    /\ raw_remote = << >>
    /\ ref = NoRef
    /\ ref2 = NoRef
    /\ wanted = NoWanted
    /\ provider_arg = None
    /\ components = NoComponents
    /\ entry = NoEntry
    /\ payload = None
    /\ normalized = None
    /\ \E op \in WriteOps : \E args \in WriteArguments(op) :
          request = WriteRequest(op, args)
    /\ account \in RepositoryStates
    /\ request.op = "create_repository" =>
          account = [ objects |-> << commit(<< "0" >>, 0, << >>, None) >>,
                      reflog |-> << 1 >> ]
    /\ failure \in Faults(7 + MaxFiles)
    /\ failure # NoFault =>
          failure.at <= Len(client_calls(request.target, request.op,
                               request.op = "commit_files" /\ given_by_name(request.args),
                               FALSE,
                               IF request.op = "commit_files"
                               THEN Len(request.args.files) ELSE 0))
    /\ trace = << >>
    /\ outcome = None
    /\ heap = << >>
    /\ threads = << >>

\* a caller about to hand a payload to a transformer
InitNormalize ==
    /\ pc = "normalize"
    /\ raw_remote = << >>
    /\ ref = NoRef
    /\ ref2 = NoRef
    /\ wanted = NoWanted
    /\ provider_arg = None
    /\ components = NoComponents
    /\ entry \in [ transformer : Transformers, method : Methods ]
    /\ \/ payload \in Others
       \/ \E fields \in FieldSets(entry.transformer, entry.method),
             kind \in Classes \cup { "dict" } :
             \E holes \in Holes(DOMAIN fields) :
                payload \in PayloadsOf(entry.transformer, entry.method,
                                       kind, fields, holes)
    /\ normalized = None
    /\ request = NoRequest
    /\ account = NoWorld
    /\ failure = NoFault
    /\ trace = << >>
    /\ outcome = None
    /\ heap = << >>
    /\ threads = << >>

\* a caller about to parse a remote string
InitParse ==
    /\ pc = "parse"
    /\ raw_remote \in Remotes
    /\ ref = NoRef
    /\ ref2 = NoRef
    /\ wanted = NoWanted
    /\ provider_arg = None
    /\ components = NoComponents
    /\ entry = NoEntry
    /\ payload = None
    /\ normalized = None
    /\ request = NoRequest
    /\ account = NoWorld
    /\ failure = NoFault
    /\ trace = << >>
    /\ outcome = None
    /\ heap = << >>
    /\ threads = << >>

\* a caller about to write a namespace and a repository name as a remote
InitRoundTrip ==
    /\ pc = "compose"
    /\ raw_remote = << >>
    /\ ref = NoRef
    /\ ref2 = NoRef
    /\ wanted \in [ namespace : Namespaces, repo : Names ]
    /\ provider_arg = None
    /\ components = NoComponents
    /\ entry = NoEntry
    /\ payload = None
    /\ normalized = None
    /\ request = NoRequest
    /\ account = NoWorld
    /\ failure = NoFault
    /\ trace = << >>
    /\ outcome = None
    /\ heap = << >>
    /\ threads = << >>

\* the concurrent callers and the providers they ask for
Callers == 1..MaxCallers

CallerProviders ==
    { Enum(GITHUB), Enum(GITLAB), Str(GITHUB), Str(GITLAB), None,
      Str(<< "g","i","t" >>) }

\* callers about to call get_components of one RepoFetcher, each with its
\* provider; no object is constructed yet
InitConcurrent ==
    /\ pc = "concurrent"
    /\ raw_remote = << >>
    /\ ref = NoRef
    /\ ref2 = NoRef
    /\ wanted = NoWanted
    /\ provider_arg = None
    /\ components = NoComponents
    /\ entry = NoEntry
    /\ payload = None
    /\ normalized = None
    /\ request = NoRequest
    /\ account = NoWorld
    /\ failure = NoFault
    /\ trace = << >>
    /\ outcome = None
    /\ heap = << >>
    /\ threads \in [ Callers -> [ pc : { "call" }, provider : CallerProviders,
                                  fetcher : { 0 }, transformer : { 0 },
                                  result : { << 0, 0 >> } ] ]

\* a caller about to ask the dispatcher for a provider's components
InitDispatch ==
    /\ pc = "dispatch"
    /\ raw_remote = << >>
    /\ ref = NoRef
    /\ ref2 = NoRef
    /\ wanted = NoWanted
    /\ provider_arg \in Providers
    /\ components = NoComponents
    /\ entry = NoEntry
    /\ payload = None
    /\ normalized = None
    /\ request = NoRequest
    /\ account = NoWorld
    /\ failure = NoFault
    /\ trace = << >>
    /\ outcome = None
    /\ heap = << >>
    /\ threads = << >>

\* ref = parse_git_remote(raw_remote)
ParseGitRemote ==
    /\ pc = "parse"
    /\ ref' = parse_git_remote(raw_remote)
    /\ pc' = "parsed"
    /\ UNCHANGED << raw_remote, ref2, wanted, provider_arg, components, normVars, fetchVars, callVars >>

\* ref2 = parse_git_remote(ref.full_name), for a ref that was returned
Reparse ==
    /\ pc = "parsed"
    /\ ref.status = "ok"
    /\ ref2' = parse_git_remote(ref.full_name)
    /\ pc' = "reparsed"
    /\ UNCHANGED << raw_remote, ref, wanted, provider_arg, components, normVars, fetchVars, callVars >>

\* raw_remote = the string of wanted.namespace and wanted.repo in one form
Compose(form) ==
    /\ pc = "compose"
    /\ raw_remote' = compose(form, wanted.namespace, wanted.repo)
    /\ pc' = "parse"
    /\ UNCHANGED << ref, ref2, wanted, provider_arg, components, normVars, fetchVars, callVars >>

\* normalized = the transformer's from_git or from_git_user of payload
Normalize ==
    /\ pc = "normalize"
    /\ normalized' = from_git_of(entry.transformer, entry.method, payload)
    /\ pc' = "normalized"
    /\ UNCHANGED << raw_remote, ref, ref2, wanted, provider_arg, components,
                    entry, payload, fetchVars, callVars >>

\* outcome = fetcher.fetch_single_repo(token, raw_remote)
FetchSingleRepo ==
    /\ pc = "parse"
    /\ request.op = "fetch_single_repo"
    /\ LET r == fetch_single_repo(request.target, raw_remote, account, failure)
       IN  trace' = r.calls /\ outcome' = r.outcome
    /\ heap' = authenticated(heap, request.target, failure)
    /\ pc' = "fetched"
    /\ UNCHANGED << raw_remote, ref, ref2, wanted, provider_arg, components,
                    normVars, request, account, failure, threads >>

\* outcome = fetcher.fetch_user_repositories(token, offset, limit)
FetchUserRepositories ==
    /\ pc = "fetch"
    /\ request.op = "fetch_user_repositories"
    /\ LET r == fetch_user_repositories(request.target, request.offset,
                                        request.limit, account, failure)
       IN  trace' = r.calls /\ outcome' = r.outcome
    /\ heap' = authenticated(heap, request.target, failure)
    /\ pc' = "fetched"
    /\ UNCHANGED << raw_remote, ref, ref2, wanted, provider_arg, components,
                    normVars, request, account, failure, threads >>

\* outcome = one of the other operations of a fetcher
FetcherOperation ==
    /\ pc = "operate"
    /\ LET r == fetcher_operation(request.target, request.op, request.args,
                                  account, failure)
       IN  trace' = r.calls /\ outcome' = r.outcome
    /\ heap' = authenticated(heap, request.target, failure)
    /\ pc' = "fetched"
    /\ UNCHANGED << raw_remote, ref, ref2, wanted, provider_arg, components,
                    normVars, request, account, failure, threads >>

\* the caller goes on to call the fetcher once more
NextOperation ==
    /\ pc = "fetched"
    /\ Len(heap) < MaxOperations
    /\ pc' = CASE request.op = "fetch_single_repo"       -> "parse"
              [] request.op = "fetch_user_repositories" -> "fetch"
              [] OTHER                                  -> "operate"
    /\ trace' = << >>
    /\ outcome' = None
    /\ UNCHANGED << raw_remote, ref, ref2, wanted, provider_arg, components,
                    normVars, request, account, failure, callVars >>

\* outcome = the manager's operation, called directly
ManagerCall ==
    /\ pc = "manage"
    /\ LET m == manager_call(request.target, request.op, request.by_id,
                             request.update, request.files, 0, failure,
                             request.op)
       IN  trace' = on_client(m.client) /\ outcome' = m.outcome
    /\ pc' = "managed"
    /\ UNCHANGED << raw_remote, ref, ref2, wanted, provider_arg, components,
                    normVars, request, account, failure, callVars >>

\* outcome = AuthenticatedGitHubManager.get_user_repositories(page, per_page)
GetUserRepositories ==
    /\ pc = "page"
    /\ request.op = "get_user_repositories"
    /\ trace' = on_client(client_calls(request.target, request.op,
                                       FALSE, FALSE, 0))
    /\ outcome' = Return(GitHub_get_user_repositories(account.total,
                             request.args.page, request.args.per_page))
    /\ pc' = "paged"
    /\ UNCHANGED << raw_remote, ref, ref2, wanted, provider_arg, components,
                    normVars, request, account, failure, callVars >>

\* outcome = GitHubManager.get_pagination_info(total_count, page, per_page)
GetPaginationInfo ==
    /\ pc = "page"
    /\ request.op = "get_pagination_info"
    /\ outcome' = IF request.args.per_page = 0
                  THEN Throw("ZeroDivisionError", {})
                  ELSE Return(get_pagination_info(request.args.total_count,
                                  request.args.page, request.args.per_page))
    /\ pc' = "paged"
    /\ UNCHANGED << raw_remote, ref, ref2, wanted, provider_arg, components,
                    normVars, request, account, failure, trace, callVars >>

\* outcome = AuthenticatedGitHubManager.create_repository(**request.args)
CreateRepository ==
    /\ pc = "write"
    /\ request.op = "create_repository"
    /\ LET sent == create_repo_arguments(request.args)
           m    == manager_call(request.target, request.op, FALSE, FALSE, 0,
                                0, failure, Object("Repository", sent))
       IN  /\ trace' = with_arguments(m.client, [ create_repo |-> sent ])
           /\ outcome' = m.outcome
    /\ pc' = "written"
    /\ UNCHANGED << raw_remote, ref, ref2, wanted, provider_arg, components,
                    normVars, request, account, failure, callVars >>

\* outcome = AuthenticatedGitHubManager.commit_files(**request.args), on the
\* repository `account`
CommitFiles ==
    /\ pc = "write"
    /\ request.op = "commit_files"
    /\ LET args  == request.args
           first == IF given_by_name(args) THEN 2 ELSE 1
           m     == manager_call(request.target, request.op,
                                 given_by_name(args), FALSE, Len(args.files),
                                 0, failure, commit_files_result(account, args))
           made  == IF m.outcome.kind = "raised" THEN Len(m.client) - 1
                    ELSE Len(m.client)
           after == commit_files_effect(account, args, first, made)
       IN  /\ trace' = with_arguments(m.client,
                 [ get_repo          |-> [ full_name_or_id |-> args.repository ],
                   get_git_ref       |-> [ ref |-> << "h", "e", "a", "d", "s", "/" >>
                                                    \o args.branch.value ],
                   get_git_tree      |-> [ sha |-> head_of(account) ],
                   create_git_tree   |-> [ base_tree |-> head_of(account) ],
                   get_git_commit    |-> [ sha |-> head_of(account) ],
                   create_git_commit |->
                       [ message |-> args.commit_message,
                         parents |-> << head_of(account) >>,
                         author  |-> input_author(args.author_name,
                                                  args.author_email) ],
                   edit              |->
                       [ sha |-> Len(account.objects) + Len(args.files) + 2 ] ])
           /\ account' = after
           /\ outcome' = m.outcome
    /\ pc' = "written"
    /\ UNCHANGED << raw_remote, ref, ref2, wanted, provider_arg, components,
                    normVars, request, failure, callVars >>

\* components = RepoFetcher().get_components(provider_arg)
GetComponents ==
    /\ pc = "dispatch"
    /\ components' = get_components(provider_arg)
    /\ pc' = "dispatched"
    /\ UNCHANGED << raw_remote, ref, ref2, wanted, provider_arg, normVars, fetchVars, callVars >>

\* caller t enters get_components and takes the branch of its provider
Dispatch(t) ==
    /\ pc = "concurrent"
    /\ threads[t].pc = "call"
    /\ threads' = [ threads EXCEPT ![t].pc =
                      IF get_components(threads[t].provider).fetcher = "None"
                      THEN "return" ELSE "new_fetcher" ]
    /\ UNCHANGED << pc, raw_remote, ref, ref2, wanted, provider_arg, components,
                    normVars, fetchVars, heap >>

\* GitHubRepoFetcher() / GitLabRepoFetcher(): the object is constructed
NewFetcher(t) ==
    /\ pc = "concurrent"
    /\ threads[t].pc = "new_fetcher"
    /\ LET cls == get_components(threads[t].provider).fetcher
           id  == new_object(heap, cls)
       IN  /\ heap' = constructed(heap, id, cls, t)
           /\ threads' = [ threads EXCEPT ![t].pc = "init_fetcher",
                                          ![t].fetcher = id ]
    /\ UNCHANGED << pc, raw_remote, ref, ref2, wanted, provider_arg, components,
                    normVars, fetchVars >>

\* its __init__: self.manager = GitHubManager(base_url) / GitLabManager(base_url)
InitFetcher(t) ==
    /\ pc = "concurrent"
    /\ threads[t].pc = "init_fetcher"
    /\ LET cls == manager_of(heap[threads[t].fetcher].cls)
           id  == new_object(heap, cls)
       IN  heap' = [ constructed(heap, id, cls, t)
                       EXCEPT ![threads[t].fetcher].manager = id ]
    /\ threads' = [ threads EXCEPT ![t].pc = "new_transformer" ]
    /\ UNCHANGED << pc, raw_remote, ref, ref2, wanted, provider_arg, components,
                    normVars, fetchVars >>

\* GitHubRepoResponseTransformer() / GitLabRepoResponseTransformer()
NewTransformer(t) ==
    /\ pc = "concurrent"
    /\ threads[t].pc = "new_transformer"
    /\ LET cls == get_components(threads[t].provider).transformer
           id  == new_object(heap, cls)
       IN  /\ heap' = constructed(heap, id, cls, t)
           /\ threads' = [ threads EXCEPT ![t].pc = "return",
                                          ![t].transformer = id ]
    /\ UNCHANGED << pc, raw_remote, ref, ref2, wanted, provider_arg, components,
                    normVars, fetchVars >>

\* the return of get_components: the caller receives the pair
ReturnComponents(t) ==
    /\ pc = "concurrent"
    /\ threads[t].pc = "return"
    /\ threads' = [ threads EXCEPT ![t].pc = "returned",
                                   ![t].result = << threads[t].fetcher,
                                                    threads[t].transformer >> ]
    /\ UNCHANGED << pc, raw_remote, ref, ref2, wanted, provider_arg, components,
                    normVars, fetchVars, heap >>

NextParse == ParseGitRemote \/ Reparse

NextRoundTrip == (\E form \in Forms : Compose(form)) \/ ParseGitRemote

NextDispatch == GetComponents

NextConcurrent ==
    \E t \in Callers :
        \/ Dispatch(t) \/ NewFetcher(t) \/ InitFetcher(t)
        \/ NewTransformer(t) \/ ReturnComponents(t)

NextNormalize == Normalize

NextFetch ==
    \/ \E form \in Forms : Compose(form)
    \/ FetchSingleRepo
    \/ FetchUserRepositories
    \/ FetcherOperation
    \/ NextOperation

NextManager == ManagerCall

NextPaging == GetUserRepositories \/ GetPaginationInfo

NextWrite == CreateRepository \/ CommitFiles

SpecParse == InitParse /\ [][NextParse]_vars

SpecRoundTrip == InitRoundTrip /\ [][NextRoundTrip]_vars

SpecDispatch == InitDispatch /\ [][NextDispatch]_vars

SpecConcurrent == InitConcurrent /\ [][NextConcurrent]_vars

SpecPaging == InitPaging /\ [][NextPaging]_vars

SpecWrite == InitWrite /\ [][NextWrite]_vars

SpecNormalize == InitNormalize /\ [][NextNormalize]_vars

SpecFetch == InitFetch /\ [][NextFetch]_vars

SpecManager == InitManager /\ [][NextManager]_vars

Init ==
    \/ InitParse \/ InitRoundTrip \/ InitDispatch \/ InitNormalize
    \/ InitFetch \/ InitManager \/ InitConcurrent \/ InitPaging
    \/ InitWrite

Next ==
    \/ NextParse \/ NextRoundTrip \/ NextDispatch \/ NextNormalize
    \/ NextFetch \/ NextManager \/ NextConcurrent \/ NextPaging
    \/ NextWrite

Spec == Init /\ [][Next]_vars

-----------------------------------------------------------------------------
(* What the specification says of a remote string, stated on the string.  *)

GitHubPair == Pair("GitHubRepoFetcher", "GitHubRepoResponseTransformer")
GitLabPair == Pair("GitLabRepoFetcher", "GitLabRepoResponseTransformer")
NonePair   == Pair("None", "None")

\* position of the "://" that ends a scheme, 0 when the string has none
SchemeEnd(x) ==
    LET c == find(x, ":")
    IN  IF /\ c > 1
           /\ isalpha(x[1])
           /\ \A k \in 1..(c-1) : x[k] \in scheme_chars
           /\ startswith(From(x, c + 1), << "/", "/" >>)
        THEN c ELSE 0

\* the network location of a URL: from the "://" to the next '/'
Authority(x) ==
    LET a == From(x, SchemeEnd(x) + 3)
        e == find(a, "/")
    IN  IF e = 0 THEN a ELSE SubSeq(a, 1, e - 1)

\* URL form: a scheme (in any letter case), "://" and a network location
IsUrlForm(x) == SchemeEnd(x) > 0 /\ Authority(x) # << >>

\* scp-like form: not URL form, and [user@]host:path
IsScpForm(x) == ~ IsUrlForm(x) /\ _SCP_RE_match(x).matched

\* shorthand: neither, and owner/repo with at most one leading slash
IsShorthandForm(x) ==
    /\ ~ IsUrlForm(x)
    /\ ~ IsScpForm(x)
    /\ \/ _looks_like_bare_fullname(x)
       \/ startswith(x, << "/" >>) /\ _looks_like_bare_fullname(Tail(x))

\* the path of a remote string of a recognized form
PathOf(x) ==
    IF IsUrlForm(x) THEN From(x, SchemeEnd(x) + 3 + Len(Authority(x)))
    ELSE IF IsScpForm(x) THEN _SCP_RE_match(x).path
    ELSE x

\* the number of non-empty '/'-separated segments of a path
SegmentCount(path) == Cardinality({ i \in 1..Len(path) :
                          path[i] # "/" /\ (i = 1 \/ path[i-1] = "/") })

\* the host name of a URL's network location or of an scp-like string,
\* without user-info ("user[:password]@") and port (":22")
HostNameOf(x) ==
    IF IsUrlForm(x)
    THEN LET a == Authority(x)
             h == From(a, rfind(a, "@") + 1)
             c == find(h, ":")
         IN  IF c = 0 THEN h ELSE SubSeq(h, 1, c - 1)
    ELSE _SCP_RE_match(x).host

-----------------------------------------------------------------------------
(* Claims. *)

\* C1: get_components compares string provider tags case-insensitively:
\* every letter-casing of "github" yields the GitHub fetcher and
\* transformer, every letter-casing of "gitlab" the GitLab ones.
C1_CaseInsensitiveDispatch ==
    (pc = "dispatched" /\ provider_arg.kind = "str") =>
        /\ lower(provider_arg.value) = GITHUB => components = GitHubPair
        /\ lower(provider_arg.value) = GITLAB => components = GitLabPair

C3_EnumAndStringAgree ==
    pc = "dispatched" =>
        /\ provider_arg \in { Enum(GITHUB), Str(GITHUB) } => components = GitHubPair
        /\ provider_arg \in { Enum(GITLAB), Str(GITLAB) } => components = GitLabPair
        /\ components \in { GitHubPair, GitLabPair, NonePair }

C3_Witness ==
    /\ pc = "dispatched"
    /\ provider_arg = Enum(GITLAB)
    /\ components = GitLabPair

\* C4: every RepoRef parse_git_remote returns has a namespace of at least
\* one element and a non-empty repo.
C4_NamespaceAndRepoNonEmpty ==
    ref.status = "ok" => Len(ref.namespace) >= 1 /\ ref.repo # << >>

\* C5: an input of no recognized form raises UNRECOGNIZED_GIT_FORMAT, and an
\* input of a recognized form (URL, scp-like, shorthand) whose path has
\* fewer than two segments raises MISSING_NAMESPACE__REPO.
C5_ErrorKinds ==
    pc = "parsed" =>
        LET x == strip(raw_remote)
            recognized == IsUrlForm(x) \/ IsScpForm(x) \/ IsShorthandForm(x)
        IN  /\ ~ recognized => ref.status = UNRECOGNIZED_GIT_FORMAT
            /\ (recognized /\ SegmentCount(PathOf(x)) < 2) =>
                   ref.status = MISSING_NAMESPACE__REPO

\* C6: the original of a returned RepoRef is the raw input string exactly as
\* the caller passed it, leading and trailing whitespace included.
C6_OriginalVerbatim ==
    ref.status = "ok" => ref.original = raw_remote

\* C7: the provider of a returned RepoRef is a function of its host alone:
\* gitlab if the lower-cased host contains "gitlab", else github if it
\* contains "github", else unknown; an input without ':' (a shorthand)
\* yields the empty host and unknown.
C7_ProviderFromHost ==
    ref.status = "ok" =>
        /\ ref.provider =
             IF contains(lower(ref.host), GITLAB) THEN GITLAB
             ELSE IF contains(lower(ref.host), GITHUB) THEN GITHUB
             ELSE UNKNOWN
        /\ ":" \notin Range(raw_remote) => ref.host = << >> /\ ref.provider = UNKNOWN
        /\ ref.provider \in { GITHUB, GITLAB, UNKNOWN }

C7_Witness ==
    /\ ref.status = "ok"
    /\ contains(ref.host, GITLAB)
    /\ contains(ref.host, GITHUB)
    /\ ref.provider = GITLAB

\* C8: for every namespace [n1..nk], k >= 1, and repository name r, the
\* string "n1/../nk/r.git", written plainly, with doubled or trailing
\* slashes, or behind a URL or scp-like host, parses to exactly that
\* namespace, that repo and the full name "n1/../nk/r".
C8_RoundTrip ==
    pc = "parsed" =>
        /\ ref.status = "ok"
        /\ ref.namespace = wanted.namespace
        /\ ref.repo = wanted.repo
        /\ ref.full_name = join(wanted.namespace \o << wanted.repo >>, "/")

C8_Witness ==
    /\ pc = "parsed"
    /\ Len(wanted.namespace) = 2
    /\ endswith(wanted.repo, DOT_GIT)
    /\ raw_remote = compose("url_doubled", wanted.namespace, wanted.repo)
    /\ ref.status = "ok"
    /\ ref.repo = wanted.repo

\* C9: when parse_git_remote(x) succeeds, parse_git_remote of its full_name
\* succeeds too and returns the same namespace and the same repo.
C9_Idempotent ==
    pc = "reparsed" =>
        /\ ref2.status = "ok"
        /\ ref2.namespace = ref.namespace
        /\ ref2.repo = ref.repo

\* C10: in URL form (the scheme in any letter case) and in scp-like form the
\* returned host is the lower-cased host name, without user-info and port,
\* and every namespace segment and the repo are in the input with their
\* letter case unchanged.
C10_HostAndCase ==
    LET x == strip(raw_remote)
    IN  (ref.status = "ok" /\ (IsUrlForm(x) \/ IsScpForm(x))) =>
            /\ ref.host = lower(HostNameOf(x))
            /\ "@" \notin Range(ref.host)
            /\ ":" \notin Range(ref.host)
            /\ \A i \in 1..Len(ref.namespace) : contains(PathOf(x), ref.namespace[i])
            /\ contains(PathOf(x), ref.repo)


\* C11: a string with a URL scheme followed by "://" but an empty host or an
\* empty path is never returned as a RepoRef.
C11_SchemeWithoutHostOrPathFails ==
    pc = "parsed" =>
        LET x    == strip(raw_remote)
            a    == From(x, SchemeEnd(x) + 3)
            e    == find(a, "/")
            host == IF e = 0 THEN a ELSE SubSeq(a, 1, e - 1)
            path == IF e = 0 THEN << >> ELSE From(a, e)
        IN  (SchemeEnd(x) > 0 /\ (host = << >> \/ SegmentCount(path) = 0)) =>
                ref.status # "ok"

-----------------------------------------------------------------------------
(* The response transformers. *)

GitHubFromGit == [ transformer |-> "GitHubRepoResponseTransformer", method |-> "from_git" ]
GitLabFromGit == [ transformer |-> "GitLabRepoResponseTransformer", method |-> "from_git" ]

\* a payload that carries fields: a dict or an object with attributes
HasFields(p) == p.kind \in Classes \cup { "dict" }

\* the value of a field of a payload, None when the payload lacks it
FieldOf(p, k) == dict_get(IF p.kind = "dict" THEN p.items ELSE p.attrs, k, None)

\* the call returned a canonical record
Returned(cls) == pc = "normalized" /\ normalized.kind = cls

C14_GitLabSizeFromStatistics ==
    (entry = GitLabFromGit /\ Returned("NormalizedGitRepo")) =>
        LET statistics == FieldOf(payload, "statistics")
        IN  normalized.attrs.size =
                IF statistics.kind = "NoneType" \/ statistics = Dict(<< >>)
                THEN None
                ELSE dict_get(statistics.items, "repository_size", PyInt(0))

\* an empty value: None, the empty dict, list and str, 0 and False
IsEmpty(p) ==
    p \in { None, Dict(<< >>), List(<< >>), Str(<< >>), PyInt(0), Bool(FALSE) }

\* a value that is no payload of the entry point: not empty, no dict, no
\* SimpleNamespace and no object of the provider's own class
IsUnsupported(p) ==
    /\ ~ IsEmpty(p)
    /\ p.kind \notin { "dict", "SimpleNamespace", native(entry.transformer, entry.method) }

\* C15: each of the four entry points returns None for an empty input and
\* raises the TypeError naming the received type for a non-empty input that
\* is neither a provider object nor a mapping; neither returns a record.
C15_EmptyGivesNoneUnsupportedRaises ==
    pc = "normalized" =>
        /\ IsEmpty(payload) => normalized = None
        /\ IsUnsupported(payload) => normalized = Throw("TypeError", { payload.kind })

C15_Witness ==
    /\ pc = "normalized"
    /\ entry.method = "from_git_user"
    /\ payload = List(<< Str(<< "x" >>) >>)
    /\ normalized = Throw("TypeError", { "list" })

\* the payload's names for the fields of the canonical record
KeyOf(transformer, field) ==
    IF transformer = "GitHubRepoResponseTransformer"
    THEN CASE field = "stargazers_count" -> "stargazers_count"
           [] field = "html_url"         -> "html_url"
           [] field = "relative_path"    -> "full_name"
           [] field = "repo_name"        -> "name"
           [] OTHER                      -> field
    ELSE CASE field = "stargazers_count" -> "star_count"
           [] field = "html_url"         -> "http_url_to_repo"
           [] field = "relative_path"    -> "path_with_namespace"
           [] field = "repo_name"        -> "name"
           [] OTHER                      -> field

\* a repository payload of a supported kind whose mandatory fields (id,
\* name, URL, relative path) are set
IsRepoPayload ==
    /\ entry.method = "from_git"
    /\ payload.kind \in { "dict", "SimpleNamespace", native(entry.transformer, entry.method) }
    /\ payload # Dict(<< >>)
    /\ \A f \in { "id", "repo_name", "html_url", "relative_path" } :
          FieldOf(payload, KeyOf(entry.transformer, f)) # None

\* the value of a field, or a default when the payload has none
OrDefault(v, default) == IF v = None THEN default ELSE v

\* C16: from_git never raises for a payload whose default branch, counts,
\* description, visibility or statistics are missing (absent or null); it
\* returns 'main', 0 and 0 for the first three and leaves description and
\* visibility unset.
C16_DefensiveExtraction ==
    (pc = "normalized" /\ IsRepoPayload) =>
        LET got(f) == FieldOf(payload, KeyOf(entry.transformer, f))
        IN  /\ normalized.kind = "NormalizedGitRepo"
            /\ normalized.attrs.default_branch = OrDefault(got("default_branch"), Str(MAIN))
            /\ normalized.attrs.forks_count = OrDefault(got("forks_count"), PyInt(0))
            /\ normalized.attrs.stargazers_count = OrDefault(got("stargazers_count"), PyInt(0))
            /\ normalized.attrs.description = got("description")
            /\ normalized.attrs.visibility = got("visibility")

\* a provider object (SimpleNamespace or the provider's own class) with
\* every field set
IsWholeObject ==
    /\ payload.kind \in { "SimpleNamespace", native(entry.transformer, entry.method) }
    /\ payload.attrs \in FieldSets(entry.transformer, entry.method)

\* C17: each entry point accepts a provider object and a mapping in the
\* provider's field names, and returns the same canonical record for the
\* same field values.
C17_ObjectAndMappingAgree ==
    (pc = "normalized" /\ IsWholeObject) =>
        /\ normalized.kind \in { "NormalizedGitRepo", "GitUserResponse" }
        /\ normalized = from_git_of(entry.transformer, entry.method,
                                    Dict(payload.attrs))

-----------------------------------------------------------------------------
(* The fetchers and managers. *)

\* the positions in the trace of the calls of one operation of the manager
ManagerCalls(op) ==
    { i \in DOMAIN trace : trace[i].to = "manager" /\ trace[i].op = op }

\* C18: fetch_single_repo looks the project up by the namespace segments
\* and the repo of the parsed remote joined with '/', so that every written
\* form of one repository reaches the provider under the same identifier.
C18_LookupByFullName ==
    (pc = "fetched" /\ request.op = "fetch_single_repo") =>
        LET parsed == parse_git_remote(raw_remote)
            lookup == ManagerCalls("get_project")
        IN  /\ \A i \in lookup :
                  trace[i].args.full_name_or_id =
                      join(parsed.namespace \o << parsed.repo >>, "/")
            /\ (parsed.status = "ok" /\ failure = NoFault) => Cardinality(lookup) = 1
            /\ wanted # NoWanted =>
                  \E i \in lookup :
                      trace[i].args.full_name_or_id =
                          join(wanted.namespace \o << wanted.repo >>, "/")

C18_Witness ==
    /\ pc = "fetched"
    /\ request.op = "fetch_single_repo"
    /\ Len(wanted.namespace) = 2
    /\ raw_remote = compose("scp", wanted.namespace, wanted.repo)
    /\ \E i \in ManagerCalls("get_project") :
          trace[i].args.full_name_or_id =
              join(wanted.namespace \o << wanted.repo >>, "/")

\* what the manager's get_user_repositories returns to the fetcher
ManagerRepositories(page, per_page) ==
    IF request.target = "GitHubRepoFetcher"
    THEN GitHub_get_user_repositories(account.total, page, per_page)
    ELSE GitLab_get_user_repositories(account.total, account.headers, page, per_page)

\* C19: fetch_user_repositories asks the manager for page = offset + 1 with
\* per_page = limit, and returns the manager's total_count as data_count and
\* its repositories as data.
C19_PageIsOffsetPlusOne ==
    (pc = "fetched" /\ request.op = "fetch_user_repositories") =>
        LET asked == ManagerCalls("get_user_repositories")
            got   == ManagerRepositories(request.offset + 1, request.limit)
        IN  /\ \A i \in asked :
                  trace[i].args = [ page |-> request.offset + 1,
                                    per_page |-> request.limit ]
            /\ outcome.kind = "returned" =>
                  /\ Cardinality(asked) = 1
                  /\ outcome.value = [ data_count |-> got.pagination_info.total_count,
                                       data       |-> got.repositories ]

C19_Witness ==
    /\ pc = "fetched"
    /\ request.op = "fetch_user_repositories"
    /\ request.offset = 2
    /\ request.limit = 50
    /\ \E i \in ManagerCalls("get_user_repositories") :
          trace[i].args = [ page |-> 3, per_page |-> 50 ]
    /\ outcome.kind = "returned"
    /\ outcome.value.data_count = 3

\* the client's failure classes the claim names for an operation:
\* GithubException for the GitHub managers, GitlabError for the GitLab
\* managers, requests' RequestException for GitLab's two REST calls
IsClientFailure(target, op, exc) ==
    IF target \in { "GitHubManager", "AuthenticatedGitHubManager" }
    THEN exc \in { "GithubException", "UnknownObjectException" }
    ELSE IF op \in { "get_user", "get_user_repositories" }
    THEN exc \in { "RequestException", "HTTPError", "ConnectionError" }
    ELSE exc \in { "GitlabError", "GitlabAuthenticationError" }

\* the message the claim names for an operation
OwnMessage(op) ==
    CASE op = "authenticate"          -> "GIT_AUTH_FAILED"
      [] op = "get_project"           -> "GIT_PROJECT_FETCH_FAILED"
      [] op = "get_project_languages" -> "GIT_PROJECT_LANGUAGE_FETCH_FAILED"
      [] op = "get_user"              -> "GIT_USER_FETCH_FAILED"
      [] op = "get_user_repositories" -> "GIT_REPOS_FETCH_FAILED"
      [] op = "create_repository"     -> "Failed to create repository"
      [] op = "create_branch"         -> "Failed to create branch"
      [] op = "commit_files"          -> "Failed to commit files"
      [] op = "push_single_file"      -> "Failed to push file"

\* C20: a failure of the provider client in any operation of the managers
\* (authenticate included) leaves the operation as a DevDoxGitException
\* with the operation's own message, never as the client's exception and
\* never as a normal result.
C20_ClientFailureBecomesDevDoxGitException ==
    (pc = "managed" /\ failure # NoFault
        /\ IsClientFailure(request.target, request.op, failure.exc)) =>
        outcome = Throw("DevDoxGitException", { OwnMessage(request.op) })

C20_Witness ==
    /\ pc = "managed"
    /\ request.target = "AuthenticatedGitLabManager"
    /\ request.op = "get_user_repositories"
    /\ failure = [ at |-> 2, exc |-> "HTTPError" ]
    /\ outcome = Throw("DevDoxGitException", { "GIT_REPOS_FETCH_FAILED" })

-----------------------------------------------------------------------------
(* The dispatcher under concurrent callers. *)

\* caller t has returned from get_components with a recognized provider
GotComponents(t) ==
    /\ threads[t].pc = "returned"
    /\ get_components(threads[t].provider).fetcher # "None"

\* the objects a caller holds after the return: the fetcher, its manager
\* and the transformer
HandlesOf(t) ==
    { threads[t].result[1], threads[t].result[2],
      heap[threads[t].result[1]].manager }

\* C21: the dispatcher holds no state across calls: every call of
\* get_components that recognizes the provider returns a fetcher and a
\* transformer constructed in that call, fully constructed and of the
\* provider's classes, and under any interleaving of concurrent calls no
\* caller receives an object constructed for, or shared with, another call.
C21_FreshComponentsPerCall ==
    pc = "concurrent" =>
        \A t \in Callers :
            GotComponents(t) =>
                LET f  == threads[t].result[1]
                    tr == threads[t].result[2]
                    p  == get_components(threads[t].provider)
                IN  /\ f \in DOMAIN heap /\ tr \in DOMAIN heap /\ f # tr
                    /\ heap[f].cls = p.fetcher
                    /\ heap[tr].cls = p.transformer
                    /\ heap[f].manager \in DOMAIN heap
                    /\ heap[heap[f].manager].cls = manager_of(p.fetcher)
                    /\ \A h \in HandlesOf(t) : heap[h].by = t
                    /\ \A u \in Callers \ { t } :
                          GotComponents(u) => HandlesOf(u) \cap HandlesOf(t) = {}

\* two callers asked for the same provider, their constructions
\* interleaved, and both have returned
C21_Witness ==
    /\ pc = "concurrent"
    /\ \E t, u \in Callers :
          /\ t # u
          /\ GotComponents(t) /\ GotComponents(u)
          /\ threads[t].provider = threads[u].provider
          /\ threads[t].result[1] < threads[u].result[1]
          /\ threads[u].result[1] < threads[t].result[2]

-----------------------------------------------------------------------------
(* Pagination of the GitHub manager. *)

\* the listing of the GitHub manager was called and has returned
Listed ==
    /\ pc = "paged"
    /\ request.op = "get_user_repositories"
    /\ outcome.kind = "returned"

\* C22: validate_per_page returns per_page unchanged when 1 <= per_page <=
\* 100 and 30 otherwise, validate_page returns page unchanged when page >= 1
\* and 1 otherwise, so the page and the page size get_user_repositories uses
\* satisfy page >= 1 and 1 <= per_page <= 100.
C22_PageAndPerPageValidated ==
    Listed =>
        LET given == request.args
            used  == outcome.value.pagination_info
        IN  /\ used.per_page = IF 1 <= given.per_page /\ given.per_page <= 100
                               THEN given.per_page ELSE 30
            /\ used.current_page = IF given.page >= 1 THEN given.page ELSE 1
            /\ used.current_page >= 1
            /\ 1 <= used.per_page /\ used.per_page <= 100
            /\ outcome.value.repositories =
                   get_page(account.total, used.current_page - 1, used.per_page)
            /\ Len(outcome.value.repositories) <= used.per_page

\* a listing asked with a page below 1 and a page size above 100
C22_Witness ==
    /\ Listed
    /\ request.args.page < 1
    /\ request.args.per_page > 100
    /\ outcome.value.pagination_info.current_page = 1
    /\ outcome.value.pagination_info.per_page = 30
    /\ Len(outcome.value.repositories) = 30

\* the fetcher's operation has returned
Fetched(op) ==
    /\ pc = "fetched"
    /\ request.op = op
    /\ outcome.kind = "returned"

\* the provider serves no user: none, or an empty JSON object
NoUserServed == account.user \in { None, Dict(<< >>) }

\* C23: fetch_single_repo and fetch_repo_user of both fetchers return None
\* when the provider returns no repository / no user; then fetch_single_repo
\* makes no language lookup, and otherwise it returns the repository with
\* the list of its language names; the language lookup is made only after
\* a project lookup that returned a repository.
C23_NoneWhenMissingLanguagesAfterLookup ==
    /\ Fetched("fetch_single_repo") =>
          /\ (outcome.value = None) = ~ account.found
          /\ ~ account.found => ManagerCalls("get_project_languages") = {}
          /\ account.found =>
                /\ outcome.value.kind = "tuple"
                /\ Len(outcome.value.elems) = 2
                /\ outcome.value.elems[1].attrs.full_name =
                       Str(parse_git_remote(raw_remote).full_name)
                /\ outcome.value.elems[2] =
                       List([ i \in 1..Len(account.languages) |->
                                account.languages[i].name ])
    /\ (pc = "fetched" /\ request.op = "fetch_single_repo") =>
          \A i \in ManagerCalls("get_project_languages") :
              /\ account.found
              /\ i > 2
              /\ (i - 2) \in ManagerCalls("get_project")
              /\ trace[i - 1].to = "client"
              /\ trace[i].args.repository.kind \in { "Repository", "Project" }
    /\ Fetched("fetch_repo_user") =>
          /\ (outcome.value = None) = NoUserServed
          /\ ~ NoUserServed => outcome.value = account.user

\* a repository that is not there, looked up without a language lookup,
\* gave None
C23_Witness ==
    /\ Fetched("fetch_single_repo")
    /\ ~ account.found
    /\ outcome.value = None
    /\ ManagerCalls("get_project") # {}
    /\ ManagerCalls("get_project_languages") = {}

-----------------------------------------------------------------------------
(* The shorthand forms of a remote string. *)

\* the string has neither a URL scheme with a host nor the scp-like shape
HasNoHost(x) == ~ IsUrlForm(x) /\ ~ _SCP_RE_match(x).matched

\* how the string starts: "./", "../", or two or more '/'
StartsLikeAPath(x) ==
    \/ startswith(x, << ".", "/" >>)
    \/ startswith(x, << ".", ".", "/" >>)
    \/ startswith(x, << "/", "/" >>)

ClientCalls(op) ==
    { i \in DOMAIN trace : trace[i].to = "client" /\ trace[i].op = op }

\* C25: AuthenticatedGitHubManager.create_repository creates the repository
\* as private exactly when visibility equals 'private'; every other
\* visibility ('public', 'internal', another case, empty) creates a
\* non-private one, and a null description is sent as the empty string.
C25_PrivateOnlyWhenVisibilityIsPrivate ==
    (pc = "written" /\ request.op = "create_repository") =>
        LET v == request.args.visibility.value
            d == request.args.description
        IN  /\ Cardinality(ClientCalls("create_repo")) <= 1
            /\ \A i \in ClientCalls("create_repo") :
                  /\ trace[i].args.private = Bool(v = PRIVATE)
                  /\ trace[i].args.name = request.args.name
                  /\ d = None => trace[i].args.description = Str(<< >>)
                  /\ d # None => trace[i].args.description = d
            /\ outcome.kind = "returned" =>
                  /\ ClientCalls("create_repo") = { Len(trace) }
                  /\ outcome.value.attrs.private = Bool(v = PRIVATE)

C25_Witness ==
    /\ pc = "written"
    /\ request.op = "create_repository"
    /\ request.args.visibility = Str(INTERNAL)
    /\ request.args.description = None
    /\ outcome.kind = "returned"
    /\ \E i \in ClientCalls("create_repo") :
          /\ trace[i].args.private = Bool(FALSE)
          /\ trace[i].args.description = Str(<< >>)


AuthenticationCalls ==
    IF request.target = "GitHubRepoFetcher" THEN << "Github" >>
    ELSE << "Gitlab", "auth" >>

\* C27: every operation of GitHubRepoFetcher and GitLabRepoFetcher calls
\* manager.authenticate(token) exactly once and before any other call, the
\* first operation on a fetcher and a later one alike, each getting an
\* authenticated manager of its own; fetch_single_repo parses the remote
\* only after authentication, so a malformed remote raises after
\* authentication and before any project lookup.
C27_AuthenticateFirstAndOnce ==
    pc = "fetched" =>
        LET n             == Len(AuthenticationCalls)
            authenticated_ok == failure = NoFault \/ failure.at > n
            parsings      == { i \in DOMAIN trace : trace[i].to = "parser" }
        IN  /\ ManagerCalls("authenticate") = { 1 }
            /\ \A i \in 1..n :
                  i + 1 \in DOMAIN trace =>
                      /\ trace[i + 1].to = "client"
                      /\ trace[i + 1].op = AuthenticationCalls[i]
            /\ authenticated_ok =>
                  /\ heap # << >>
                  /\ heap[Len(heap)] =
                         [ cls |-> authenticated_of(request.target),
                           by |-> Len(heap), manager |-> 0 ]
            /\ ~ authenticated_ok =>
                  /\ Len(trace) = 1 + failure.at
                  /\ outcome.kind = "raised"
            /\ \A i \in DOMAIN trace :
                  (trace[i].to = "manager" /\ i # 1) => (authenticated_ok /\ i > 1 + n)
            /\ request.op = "fetch_single_repo" =>
                  /\ parsings = IF authenticated_ok THEN { n + 2 } ELSE { }
                  /\ \A i \in ManagerCalls("get_project") : i > n + 2
                  /\ (authenticated_ok /\ parse_git_remote(raw_remote).status # "ok") =>
                        /\ outcome.kind = "raised"
                        /\ Len(trace) = n + 2
                        /\ ManagerCalls("get_project") = { }
            /\ request.op # "fetch_single_repo" => parsings = { }

C27_Witness ==
    /\ pc = "fetched"
    /\ request.op = "fetch_single_repo"
    /\ request.target = "GitLabRepoFetcher"
    /\ Len(heap) = MaxOperations
    /\ parse_git_remote(raw_remote).status = MISSING_NAMESPACE__REPO
    /\ outcome = Throw("DevDoxGitException", { MISSING_NAMESPACE__REPO })
    /\ ManagerCalls("authenticate") = { 1 }
    /\ trace[Len(trace)].to = "parser"


\* C28: GitHubManager.get_pagination_info, for total_count >= 0, page >= 1
\* and per_page >= 1, returns total_pages = ceil(total_count / per_page),
\* the least number of pages of per_page that hold total_count;
\* has_next_page iff page < total_pages, next_page = page + 1 exactly then
\* and null otherwise; has_prev_page iff page > 1, prev_page = page - 1
\* exactly then and null otherwise; current_page, per_page and total_count
\* are those given.
C28_PaginationInfo ==
    ( /\ pc = "paged"
      /\ request.op = "get_pagination_info"
      /\ request.args.total_count >= 0
      /\ request.args.page >= 1
      /\ request.args.per_page >= 1 ) =>
        LET total    == request.args.total_count
            page     == request.args.page
            per_page == request.args.per_page
        IN  /\ outcome.kind = "returned"
            /\ LET info == outcome.value
               IN  /\ info.total_pages \in Nat
                   /\ info.total_pages * per_page >= total
                   /\ info.total_pages > 0 =>
                         (info.total_pages - 1) * per_page < total
                   /\ info.has_next_page = (page < info.total_pages)
                   /\ info.next_page = IF page < info.total_pages
                                       THEN PyInt(page + 1) ELSE None
                   /\ info.has_prev_page = (page > 1)
                   /\ info.prev_page = IF page > 1 THEN PyInt(page - 1) ELSE None
                   /\ info.current_page = page
                   /\ info.per_page = per_page
                   /\ info.total_count = total

C28_Witness ==
    /\ pc = "paged"
    /\ request.op = "get_pagination_info"
    /\ request.args.total_count = 101
    /\ request.args.per_page = 2
    /\ request.args.page = 2
    /\ outcome.kind = "returned"
    /\ outcome.value.total_pages = 51
    /\ outcome.value.next_page = PyInt(3)
    /\ outcome.value.prev_page = PyInt(1)


-----------------------------------------------------------------------------
(* The scp-like shape of a remote string. *)

\* host:path with a non-empty host without ':' and a non-empty path
HostAndPath(s) ==
    \E c \in 2..(Len(s) - 1) : s[c] = ":" /\ \A j \in 1..(c - 1) : s[j] # ":"

\* the text after user@ when the string has the shape user@host:path, the
\* string itself when it has not
AfterUser(s) ==
    IF \E a \in 2..Len(s) : /\ s[a] = "@"
                            /\ \A j \in 1..(a - 1) : s[j] # "@"
                            /\ HostAndPath(From(s, a + 1))
    THEN From(s, 1 + CHOOSE a \in 2..Len(s) :
                         s[a] = "@" /\ \A j \in 1..(a - 1) : s[j] # "@")
    ELSE s

\* [user@]host:path
HasScpShape(s) == HostAndPath(AfterUser(s))

\* C29: the scp-like branch of parse_git_remote is tried before both
\* shorthand branches: every input that is not URL form and has the shape
\* [user@]host:path, host non-empty and without ':', path non-empty, is
\* parsed as scp-like: the host returned is the lower-cased text before the
\* first ':' after the optional user@, and the parts are those of the path
\* behind it; the shorthand heuristic does not decide (no such input is
\* returned with host '' or refused as unrecognized).
C29_ScpBeforeShorthand ==
    ( /\ pc = "parsed"
      /\ ~ IsUrlForm(strip(raw_remote))
      /\ HasScpShape(strip(raw_remote)) ) =>
        LET s     == AfterUser(strip(raw_remote))
            c     == CHOOSE c \in 2..(Len(s) - 1) :
                         s[c] = ":" /\ \A j \in 1..(c - 1) : s[j] # ":"
            parts == _split_path(From(s, c + 1))
        IN  /\ ref.status \in { "ok", MISSING_NAMESPACE__REPO }
            /\ ref.status = "ok" <=> Len(parts) >= 2
            /\ ref.status = "ok" =>
                  /\ ref.host = lower(SubSeq(s, 1, c - 1))
                  /\ ref.host # << >>
                  /\ ref.namespace \o << ref.repo >> = parts


-----------------------------------------------------------------------------
(* The author of a commit made through a fetcher. *)

\* C30: GitHubRepoFetcher.push_single_file never passes author_name or
\* author_email to the manager, whatever the caller gives, and passes
\* repository, file_path, content, commit_message, branch and update
\* unchanged; GitLabRepoFetcher.push_single_file and commit_files of both
\* fetchers pass the author fields unchanged.
C30_AuthorForwarding ==
    (pc = "fetched" /\ request.op \in { "push_single_file", "commit_files" }) =>
        LET given == request.args
            key   == IF request.target = "GitHubRepoFetcher"
                     THEN "repository" ELSE "project_or_id"
        IN  /\ Cardinality(ManagerCalls(request.op)) <= 1
            /\ outcome.kind = "returned" => ManagerCalls(request.op) # { }
            /\ \A i \in ManagerCalls(request.op) :
                  LET sent == trace[i].args
                  IN  /\ sent[key] = given.repository
                      /\ sent.branch = given.branch
                      /\ sent.commit_message = given.commit_message
                      /\ request.op = "commit_files" =>
                            /\ sent.files = given.files
                            /\ sent.author_name = given.author_name
                            /\ sent.author_email = given.author_email
                            /\ DOMAIN sent = { key, "branch", "files", "commit_message",
                                               "author_name", "author_email" }
                      /\ request.op = "push_single_file" =>
                            /\ sent.file_path = given.file_path
                            /\ sent.content = given.content
                            /\ sent.update = given.update
                            /\ IF request.target = "GitHubRepoFetcher"
                               THEN DOMAIN sent = { key, "file_path", "content",
                                                    "commit_message", "branch", "update" }
                               ELSE /\ DOMAIN sent = { key, "file_path", "content",
                                                       "commit_message", "branch", "update",
                                                       "author_name", "author_email" }
                                    /\ sent.author_name = given.author_name
                                    /\ sent.author_email = given.author_email

C30_Witness ==
    /\ pc = "fetched"
    /\ request.target = "GitHubRepoFetcher"
    /\ request.op = "push_single_file"
    /\ request.args.author_name # None
    /\ request.args.author_email # None
    /\ outcome.kind = "returned"
    /\ \E i \in ManagerCalls("push_single_file") :
          /\ "author_name" \notin DOMAIN trace[i].args
          /\ "author_email" \notin DOMAIN trace[i].args
          /\ trace[i].args.repository = request.args.repository

=============================================================================
